---- MODULE Spec2Model ----
(***************************************************************************)
(* Model of the TaxCalculatorServer tax controller                         *)
(* (src/src/controllers/tax.controller.ts), its Redis client               *)
(* (src/unnamed/part_006) and the chat lookup (src/unnamed/part_001).      *)
(*                                                                         *)
(* NUMBERS.  The program computes with JavaScript numbers.  Amounts reach  *)
(* 10^12 naira and are rounded at 0.01 naira, far beyond a 32-bit integer, *)
(* so a non-negative amount is an exact decimal with three fraction digits *)
(* held as a little-endian sequence of limbs in base 1000: limb 1 is the   *)
(* thousandths, limb 2 the units, limb 3 the thousands ...; no leading     *)
(* zero limb, and zero is <<>>.  The request bodies the model draws hold   *)
(* whole-naira amounts.  For those every product the handler forms         *)
(* (x * 0.1, x * 0.2, x * rate) is an exact multiple of 0.001, and the     *)
(* value handed to Math.round(v * 100) is a multiple of 0.2 away from any  *)
(* tie, so exact decimal arithmetic and binary floating point round to the *)
(* same cent.                                                              *)
(***************************************************************************)
EXTENDS Integers, Sequences, FiniteSets, TLC

Base == 1000

RECURSIVE Norm(_)
Norm(s) ==
    IF s = <<>> THEN s
    ELSE IF s[Len(s)] = 0 THEN Norm(SubSeq(s, 1, Len(s) - 1))
    ELSE s

RECURSIVE Limbs(_)
Limbs(n) == IF n = 0 THEN <<>> ELSE <<n % Base>> \o Limbs(n \div Base)

\* n whole naira (n an integer below 2^31) as an amount
Naira(n) == IF n = 0 THEN <<>> ELSE <<0>> \o Limbs(n)

\* n thousandths as an amount
Milli(n) == Limbs(n)

Limb(s, i) == IF i <= Len(s) THEN s[i] ELSE 0

RECURSIVE AddC(_, _, _, _)
AddC(a, b, i, c) ==
    IF i > Len(a) /\ i > Len(b)
    THEN (IF c = 0 THEN <<>> ELSE <<c>>)
    ELSE LET t == Limb(a, i) + Limb(b, i) + c
         IN  <<t % Base>> \o AddC(a, b, i + 1, t \div Base)

Add(a, b) == AddC(a, b, 1, 0)

RECURSIVE LessFrom(_, _, _)
LessFrom(a, b, i) ==
    IF i = 0 THEN FALSE
    ELSE IF a[i] # b[i] THEN a[i] < b[i]
    ELSE LessFrom(a, b, i - 1)

Less(a, b) == IF Len(a) # Len(b) THEN Len(a) < Len(b) ELSE LessFrom(a, b, Len(a))

Leq(a, b) == ~Less(b, a)

RECURSIVE SubB(_, _, _, _)
SubB(a, b, i, br) ==
    IF i > Len(a) THEN <<>>
    ELSE LET t == Limb(a, i) - Limb(b, i) - br
         IN  <<(t + Base) % Base>> \o SubB(a, b, i + 1, IF t < 0 THEN 1 ELSE 0)

\* a - b for b <= a
Sub(a, b) == Norm(SubB(a, b, 1, 0))

RECURSIVE MulC(_, _, _, _)
MulC(a, k, i, c) ==
    IF i > Len(a) THEN Limbs(c)
    ELSE LET t == a[i] * k + c
         IN  <<t % Base>> \o MulC(a, k, i + 1, t \div Base)

\* a * k for an integer 0 <= k <= 10^6
MulSmall(a, k) == Norm(MulC(a, k, 1, 0))

RECURSIVE DivR(_, _, _, _)
DivR(a, k, i, r) ==
    IF i = 0 THEN <<>>
    ELSE LET t == r * Base + a[i]
         IN  DivR(a, k, i - 1, t % k) \o <<t \div k>>

\* floor(a / k) for an integer 1 <= k <= 10^6
DivSmall(a, k) == Norm(DivR(a, k, Len(a), 0))

\* Math.min, Math.max on amounts
\* Math.min on integers
MathMinInt(a, b) == IF a <= b THEN a ELSE b

MathMin(a, b) == IF Less(b, a) THEN b ELSE a
MathMax(a, b) == IF Less(a, b) THEN b ELSE a

\* a * p / 100: the product of an amount and a rate written as p percent
\* (0.15 is 15, 0.1 is 10, 0.2 is 20)
Times(a, p) == DivSmall(MulSmall(a, p), 100)

\* Math.round(x * 100) / 100: x to the nearest 0.01, a tie going up
Round2(x) == MulSmall(DivSmall(Add(x, Milli(5)), 10), 10)

(***************************************************************************)
(* calculateNigeriaTax2026.  A bracket has a width (limit) and a rate in   *)
(* percent; unbounded marks the limit Infinity of the last bracket.        *)
(***************************************************************************)
\* A slip: the first band is taxed at the rate of the second
brackets_NoExemption ==
    << [limit |-> Naira(800000),   unbounded |-> FALSE, rate |-> 15],
       [limit |-> Naira(2200000),  unbounded |-> FALSE, rate |-> 15],
       [limit |-> Naira(9000000),  unbounded |-> FALSE, rate |-> 18],
       [limit |-> Naira(13000000), unbounded |-> FALSE, rate |-> 21],
       [limit |-> Naira(25000000), unbounded |-> FALSE, rate |-> 23],
       [limit |-> <<>>,            unbounded |-> TRUE,  rate |-> 25] >>

brackets ==
    << [limit |-> Naira(800000),   unbounded |-> FALSE, rate |-> 0],
       [limit |-> Naira(2200000),  unbounded |-> FALSE, rate |-> 15],
       [limit |-> Naira(9000000),  unbounded |-> FALSE, rate |-> 18],
       [limit |-> Naira(13000000), unbounded |-> FALSE, rate |-> 21],
       [limit |-> Naira(25000000), unbounded |-> FALSE, rate |-> 23],
       [limit |-> <<>>,            unbounded |-> TRUE,  rate |-> 25] >>

\* A slip: the bracket's width is ignored and all that remains is taxed in it
BracketTaxable_NoMin(remaining, bracket) == remaining

\* const taxable = Math.min(remaining, bracket.limit)
BracketTaxable(remaining, bracket) ==
    IF bracket.unbounded THEN remaining ELSE MathMin(remaining, bracket.limit)

\* A slip: tax = taxable * bracket.rate for tax += taxable * bracket.rate
RECURSIVE TaxLoop_Assign(_, _, _)
TaxLoop_Assign(i, tax, remaining) ==
    IF i > Len(brackets) \/ remaining = <<>> THEN tax
    ELSE LET taxable == BracketTaxable(remaining, brackets[i])
         IN  TaxLoop_Assign(i + 1,
                            Times(taxable, brackets[i].rate),
                            Sub(remaining, taxable))

\* The loop from bracket i on, with the running tax and remaining income;
\* its value is the tax before rounding.
RECURSIVE TaxLoop(_, _, _)
TaxLoop(i, tax, remaining) ==
    IF i > Len(brackets) \/ remaining = <<>> THEN tax
    ELSE LET taxable == BracketTaxable(remaining, brackets[i])
         IN  TaxLoop(i + 1,
                     Add(tax, Times(taxable, brackets[i].rate)),
                     Sub(remaining, taxable))

\* A slip: the return value is not rounded
calculateNigeriaTax2026_Unrounded(taxableIncome) == TaxLoop(1, <<>>, taxableIncome)

calculateNigeriaTax2026(taxableIncome) == Round2(TaxLoop(1, <<>>, taxableIncome))

(***************************************************************************)
(* JavaScript values of a request body field.  t is the kind: "undefined"  *)
(* (field absent), "number" (finite, sign neg and magnitude v), "NaN",     *)
(* "Infinity", "string" (non-empty) or "null".                             *)
(***************************************************************************)
Undefined == [t |-> "undefined", neg |-> FALSE, v |-> <<>>]
JsNumber(v) == [t |-> "number", neg |-> FALSE, v |-> v]
JsNegative(v) == [t |-> "number", neg |-> TRUE, v |-> v]
JsNaN == [t |-> "NaN", neg |-> FALSE, v |-> <<>>]
JsInfinity == [t |-> "Infinity", neg |-> FALSE, v |-> <<>>]
JsString == [t |-> "string", neg |-> FALSE, v |-> <<>>]
JsNull == [t |-> "null", neg |-> FALSE, v |-> <<>>]

\* typeof x
TypeOf(x) ==
    IF x.t \in {"number", "NaN", "Infinity"} THEN "number"
    ELSE IF x.t = "null" THEN "object"
    ELSE x.t

\* !x
Falsy(x) == x.t \in {"undefined", "null", "NaN"} \/ (x.t = "number" /\ x.v = <<>>)

\* a destructuring default: = 0 applies to an absent (undefined) field only
Default0(x) == IF x.t = "undefined" THEN JsNumber(<<>>) ELSE x

\* A slip: value >= 0 is left out
isValidNonNegativeNumber_NoSign(value) ==
    /\ TypeOf(value) = "number"
    /\ value.t # "NaN"
    /\ value.t # "Infinity"

\* typeof value === 'number' && !isNaN(value) && value >= 0 && isFinite(value)
isValidNonNegativeNumber(value) ==
    /\ TypeOf(value) = "number"
    /\ value.t # "NaN"
    /\ ~value.neg
    /\ value.t # "Infinity"

\* const MAX_REASONABLE_VALUE = 100_000_000_000
MAX_REASONABLE_VALUE == MulSmall(Naira(100000000), 1000)

\* A slip: >= for >
ExceedsMax_Inclusive(x) == Leq(MAX_REASONABLE_VALUE, x.v)

\* x > MAX_REASONABLE_VALUE, for x that passed isValidNonNegativeNumber
ExceedsMax(x) == Less(MAX_REASONABLE_VALUE, x.v)

\* The destructured body: the five optional fields with their defaults
Destructure(b) ==
    [monthlyGrossIncome |-> b.monthlyGrossIncome,
     additionalMonthlyIncome |-> Default0(b.additionalMonthlyIncome),
     annualPensionContributions |-> Default0(b.annualPensionContributions),
     annualNHFContributions |-> Default0(b.annualNHFContributions),
     annualRentPaid |-> Default0(b.annualRentPaid),
     lifeInsurancePremiums |-> Default0(b.lifeInsurancePremiums)]

\* The validation of calculate: "ok", or the message of the 400 response
Validate(b) ==
    LET d == Destructure(b) IN
    IF Falsy(d.monthlyGrossIncome) \/ TypeOf(d.monthlyGrossIncome) # "number"
    THEN "Monthly gross income is required and must be a valid number!"
    ELSE IF ~isValidNonNegativeNumber(d.monthlyGrossIncome)
    THEN "Monthly gross income must be a positive number!"
    ELSE IF ~isValidNonNegativeNumber(d.additionalMonthlyIncome)
    THEN "Additional monthly income must be a non-negative number!"
    ELSE IF ~isValidNonNegativeNumber(d.annualPensionContributions)
    THEN "Annual pension contributions must be a non-negative number!"
    ELSE IF ~isValidNonNegativeNumber(d.annualNHFContributions)
    THEN "Annual NHF contributions must be a non-negative number!"
    ELSE IF ~isValidNonNegativeNumber(d.annualRentPaid)
    THEN "Annual rent paid must be a non-negative number!"
    ELSE IF ~isValidNonNegativeNumber(d.lifeInsurancePremiums)
    THEN "Life insurance premiums must be a non-negative number!"
    ELSE IF \/ ExceedsMax(d.monthlyGrossIncome)
            \/ ExceedsMax(d.additionalMonthlyIncome)
            \/ ExceedsMax(d.annualPensionContributions)
            \/ ExceedsMax(d.annualNHFContributions)
            \/ ExceedsMax(d.annualRentPaid)
            \/ ExceedsMax(d.lifeInsurancePremiums)
    THEN "Input values exceed reasonable limits!"
    ELSE "ok"

(***************************************************************************)
(* The arithmetic of calculate (lines 155-191), one operator per local.    *)
(***************************************************************************)
\* floor(a / b) for b > 0 and a < 2^20 * b, by bisection: lo * b <= a < hi * b
RECURSIVE QuotSearch(_, _, _, _)
QuotSearch(a, b, lo, hi) ==
    IF hi - lo <= 1 THEN lo
    ELSE LET mid == (lo + hi) \div 2
         IN  IF Leq(MulSmall(b, mid), a)
             THEN QuotSearch(a, b, mid, hi)
             ELSE QuotSearch(a, b, lo, mid)

\* Math.round(a / b): the nearest integer, a tie going up
RoundDiv(a, b) == QuotSearch(Add(MulSmall(a, 2), b), MulSmall(b, 2), 0, 1048576)

\* A slip: the additional income is left out
GrossIncome_MonthlyOnly(monthlyGrossIncome, additionalMonthlyIncome) ==
    MulSmall(monthlyGrossIncome, 12)

\* (monthlyGrossIncome + additionalMonthlyIncome) * 12
GrossIncome(monthlyGrossIncome, additionalMonthlyIncome) ==
    MulSmall(Add(monthlyGrossIncome, additionalMonthlyIncome), 12)

\* A slip: the contribution is deducted uncapped
PensionDeduction_NoCap(annualPensionContributions, grossIncome) ==
    annualPensionContributions

\* Math.min(annualPensionContributions, grossIncome * 0.1)
PensionDeduction(annualPensionContributions, grossIncome) ==
    MathMin(annualPensionContributions, Times(grossIncome, 10))

\* Math.min(annualNHFContributions, 5000)
NhfDeduction(annualNHFContributions) == MathMin(annualNHFContributions, Naira(5000))

\* Math.min(lifeInsurancePremiums, Math.min(50000, grossIncome * 0.1))
InsuranceDeduction(lifeInsurancePremiums, grossIncome) ==
    MathMin(lifeInsurancePremiums, MathMin(Naira(50000), Times(grossIncome, 10)))

\* A slip: 20% of the rent capped at 500000, instead of the step at rent 500000
RentDeduction_Smooth(annualRentPaid) ==
    MathMin(Times(annualRentPaid, 20), Naira(500000))

\* if (annualRentPaid > 500000) 500000 else annualRentPaid * 0.2
RentDeduction(annualRentPaid) ==
    IF Less(Naira(500000), annualRentPaid) THEN Naira(500000)
    ELSE Times(annualRentPaid, 20)

\* A slip: the sum is capped
TotalDeductions_Capped(pensionDeduction, nhfDeduction, insuranceDeduction, rentDeduction) ==
    MathMin(Add(Add(Add(pensionDeduction, nhfDeduction), insuranceDeduction), rentDeduction),
            Naira(500000))

\* pensionDeduction + nhfDeduction + insuranceDeduction + rentDeduction
TotalDeductions(pensionDeduction, nhfDeduction, insuranceDeduction, rentDeduction) ==
    Add(Add(Add(pensionDeduction, nhfDeduction), insuranceDeduction), rentDeduction)

\* Math.max(0, grossIncome - totalDeductions)
TaxableIncome(grossIncome, totalDeductions) ==
    IF Less(grossIncome, totalDeductions) THEN <<>>
    ELSE Sub(grossIncome, totalDeductions)

\* A slip: the ratio is scaled by 100000, not by 10000
EffectiveTaxRate_Scaled(taxOwed, grossIncome) ==
    IF grossIncome # <<>>
    THEN MulSmall(Limbs(RoundDiv(MulSmall(taxOwed, 10000), grossIncome)), 100)
    ELSE <<>>

\* grossIncome > 0 ? Math.round((taxOwed / grossIncome) * 10000) / 100 : 0
\* as a percentage with three fraction digits
EffectiveTaxRate(taxOwed, grossIncome) ==
    IF grossIncome # <<>>
    THEN MulSmall(Limbs(RoundDiv(MulSmall(taxOwed, 10000), grossIncome)), 10)
    ELSE <<>>

\* grossIncome - taxOwed
AfterTaxIncome(grossIncome, taxOwed) == Sub(grossIncome, taxOwed)

\* The locals of calculate for a body that passed validation
CalcLocals(b) ==
    LET d == Destructure(b)
        grossIncome == GrossIncome(d.monthlyGrossIncome.v, d.additionalMonthlyIncome.v)
        pensionDeduction == PensionDeduction(d.annualPensionContributions.v, grossIncome)
        nhfDeduction == NhfDeduction(d.annualNHFContributions.v)
        insuranceDeduction == InsuranceDeduction(d.lifeInsurancePremiums.v, grossIncome)
        rentDeduction == RentDeduction(d.annualRentPaid.v)
        totalDeductions ==
            TotalDeductions(pensionDeduction, nhfDeduction, insuranceDeduction, rentDeduction)
        taxableIncome == TaxableIncome(grossIncome, totalDeductions)
        taxOwed == calculateNigeriaTax2026(taxableIncome)
        effectiveTaxRate == EffectiveTaxRate(taxOwed, grossIncome)
        afterTaxIncome == AfterTaxIncome(grossIncome, taxOwed)
    IN  [grossIncome |-> grossIncome,
         pensionDeduction |-> pensionDeduction,
         nhfDeduction |-> nhfDeduction,
         insuranceDeduction |-> insuranceDeduction,
         rentDeduction |-> rentDeduction,
         totalDeductions |-> totalDeductions,
         taxableIncome |-> taxableIncome,
         taxOwed |-> taxOwed,
         result |-> [grossIncome |-> Round2(grossIncome),
                     totalDeductions |-> Round2(totalDeductions),
                     taxableIncome |-> Round2(taxableIncome),
                     taxOwed |-> Round2(taxOwed),
                     effectiveTaxRate |-> effectiveTaxRate,
                     afterTaxIncome |-> Round2(afterTaxIncome)]]

\* const result: taxResponse
CalcResult(b) == CalcLocals(b).result

VARIABLES
    taxArg,       \* TaxSpec: the argument handed to calculateNigeriaTax2026
    taxRes,       \* TaxSpec: [done, v]: its return value once it has run
    body,         \* EngineSpec: the request body handed to calculate
    locals,       \* EngineSpec: [st, message, l]: what calculate derived from it
    redisClient,  \* the module variable redisClient: "undefined" or "ready"
    store,        \* the Redis keyspace: key -> [val, expireAt]
    now,          \* the clock, in ms since the process started
    req,          \* the requests in flight: slot -> the handler's position and locals
    idLog,        \* history: what each generateUniqueID call read and returned
    saved,        \* history: key -> [at, result] of the last acknowledged setEx
    errorCall,    \* ErrorSpec: [err, isDev, res]: one call of errorMiddleware
    proc,         \* ShutdownSpec: isShuttingDown, the cleanup handlers, the exit
    sock          \* ReconnectSpec: the Redis socket and its reconnect strategy

engineVars == <<taxArg, taxRes, body, locals>>
serverVars == <<redisClient, store, now, req, idLog, saved>>
processVars == <<errorCall, proc, sock>>
vars ==
    <<taxArg, taxRes, body, locals, redisClient, store, now, req, idLog, saved,
      errorCall, proc, sock>>

MaxSlots == 2
Slots == 1..MaxSlots

\* A JavaScript null or undefined where a string is expected
NullValue == <<"null-value">>
UndefinedValue == <<"undefined-value">>

\* A truthy value that is not a string (a number, an object) in that place
NonStringValue == <<"non-string-value">>

\* A map without keys
EmptyMap == [k \in {} |-> 0]

\* The text '', which also stands where a reply carries no text
EmptyString == [wf |-> FALSE, pairs |-> <<>>]
NoText == EmptyString
NoCalc == [absent |-> TRUE]
NoReply == [st |-> "none", val |-> NoText]
NoResp ==
    [kind |-> "none", status |-> 0, success |-> "absent", message |-> "",
     userID |-> UndefinedValue, taxCalculation |-> NoCalc, sent |-> 0, nexts |-> 0]
\* The prompt field of a request that carries none: not a chat request
NoPrompt == [t |-> "none", length |-> 0]
IdleReq ==
    [op |-> "idle", pc |-> "idle", input |-> <<>>, userID |-> UndefinedValue,
     result |-> NoCalc, cmd |-> <<>>, reply |-> NoReply, resp |-> NoResp,
     prompt |-> NoPrompt]

\* The text 'invalid json'
InvalidJson == [wf |-> FALSE, pairs |-> << <<"invalid json", [int |-> <<>>, frac |-> <<>>]>> >>]

\* The expireAt of a key without expiry
NoExpiry == 0 - 1

\* What another client of the Redis server keeps there, without expiry: text
\* that is not JSON under one key of its own, the empty string under another
ForeignKey == <<"b", "a", "d">>
EmptyKey == <<"n", "i", "l">>
ForeignStore ==
    (ForeignKey :> [val |-> InvalidJson, expireAt |-> NoExpiry])
        @@ (EmptyKey :> [val |-> EmptyString, expireAt |-> NoExpiry])

\* No call of errorMiddleware, no signal and no loss of the connection yet
NoErrorCall == [st |-> "none"]
NoProc == [st |-> "none"]
NoSock == [st |-> "none"]
ProcessInit ==
    /\ errorCall = NoErrorCall
    /\ proc = NoProc
    /\ sock = NoSock

\* The server before any request: the state after the modules are loaded.
\* The Redis server is shared: another client holds a key of its own there
ServerInit ==
    /\ redisClient = "undefined"
    /\ store = ForeignStore
    /\ now = 0
    /\ req = [r \in Slots |-> IdleReq]
    /\ idLog = <<>>
    /\ saved = EmptyMap

(***************************************************************************)
(* TaxSpec: calculateNigeriaTax2026 applied to taxable incomes around      *)
(* every cumulative band boundary, on a grid of whole millions, and at the *)
(* largest taxable income a request can produce; and to the taxable        *)
(* incomes 0.001 apart just above the first boundary, where the tax is one *)
(* product and none of them is at a rounding tie.                          *)
(***************************************************************************)
MaxTaxStep == 6
MaxMillions == 60
MaxFineStep == 40

Boundaries ==
    {Naira(800000), Naira(3000000), Naira(12000000), Naira(25000000), Naira(50000000)}

TaxInputs ==
    {Add(b, Milli(200 * k)) : b \in Boundaries, k \in 0..MaxTaxStep}
        \cup {Sub(b, Milli(200 * k)) : b \in Boundaries, k \in 0..MaxTaxStep}
        \cup {Naira(1000000 * j) : j \in 0..MaxMillions}
        \cup {Milli(200), MulSmall(MAX_REASONABLE_VALUE, 24)}
        \cup {Add(Naira(800000), Milli(k)) : k \in 1..MaxFineStep}

NoTax == [done |-> FALSE, v |-> <<>>]

TaxInit ==
    /\ taxArg \in TaxInputs
    /\ taxRes = NoTax
    /\ body = <<>>
    /\ locals = <<>>
    /\ ServerInit
    /\ ProcessInit

ComputeTax ==
    /\ ~taxRes.done
    /\ taxRes' = [done |-> TRUE, v |-> calculateNigeriaTax2026(taxArg)]
    /\ UNCHANGED <<taxArg, body, locals, serverVars, processVars>>

TaxNext == ComputeTax

TaxSpec == TaxInit /\ [][TaxNext]_vars

(***************************************************************************)
(* EngineSpec: the validation and arithmetic of calculate applied to       *)
(* request bodies.                                                         *)
(***************************************************************************)
MaxExtraIncome == 1

MonthlyValues ==
    {JsNumber(Naira(n)) : n \in {1, 50000, 67000, 283401, 300000, 500000, 5000000}}
        \cup {JsNumber(MAX_REASONABLE_VALUE), JsNumber(<<>>), JsString, Undefined}
AdditionalValues == {Undefined} \cup {JsNumber(Naira(100000 * k)) : k \in 1..MaxExtraIncome}
PensionValues == {Undefined, JsNumber(Naira(50000)), JsNumber(Naira(1000000))}
NhfValues == {Undefined, JsNumber(Naira(4000)), JsNumber(Naira(10000))}
RentValues ==
    {Undefined, JsNegative(Naira(1))}
        \cup {JsNumber(Naira(n)) : n \in {4, 400000, 500000, 500001, 1000000}}
InsuranceValues == {Undefined, JsNumber(Naira(20000)), JsNumber(Naira(60000))}

\* Values at the edges of the validation: zero, a negative number, NaN,
\* Infinity, a string, null, the bound and the bound plus one
EdgeValues ==
    {JsNumber(<<>>), JsNegative(Naira(1)), JsNaN, JsInfinity, JsString, JsNull,
     JsNumber(MAX_REASONABLE_VALUE), JsNumber(Add(MAX_REASONABLE_VALUE, Naira(1)))}

\* A body with the required field only
PlainBody ==
    [monthlyGrossIncome |-> JsNumber(Naira(500000)),
     additionalMonthlyIncome |-> Undefined,
     annualPensionContributions |-> Undefined,
     annualNHFContributions |-> Undefined,
     annualRentPaid |-> Undefined,
     lifeInsurancePremiums |-> Undefined]

\* Bodies with an edge value in one field, or in two
EdgeBodies ==
    {[[PlainBody EXCEPT ![f] = x] EXCEPT ![g] = y] :
        f \in DOMAIN PlainBody, g \in DOMAIN PlainBody, x \in EdgeValues, y \in EdgeValues}

EngineBodies ==
    [monthlyGrossIncome : MonthlyValues,
     additionalMonthlyIncome : AdditionalValues,
     annualPensionContributions : PensionValues,
     annualNHFContributions : NhfValues,
     annualRentPaid : RentValues,
     lifeInsurancePremiums : InsuranceValues]
        \cup EdgeBodies

NoLocals == [st |-> "none", message |-> "", l |-> <<>>]

EngineInit ==
    /\ body \in EngineBodies
    /\ locals = NoLocals
    /\ taxArg = <<>>
    /\ taxRes = NoTax
    /\ ServerInit
    /\ ProcessInit

\* calculate up to the result object, for a body that fails validation
EngineReject ==
    /\ locals.st = "none"
    /\ Validate(body) # "ok"
    /\ locals' = [st |-> "rejected", message |-> Validate(body), l |-> <<>>]
    /\ UNCHANGED <<body, taxArg, taxRes, serverVars, processVars>>

\* calculate up to the result object, for a body that passes validation
EngineCompute ==
    /\ locals.st = "none"
    /\ Validate(body) = "ok"
    /\ locals' = [st |-> "computed", message |-> "", l |-> CalcLocals(body)]
    /\ UNCHANGED <<body, taxArg, taxRes, serverVars, processVars>>

EngineNext == EngineReject \/ EngineCompute

EngineSpec == EngineInit /\ [][EngineNext]_vars

(***************************************************************************)
(* Strings are sequences of one-character strings.                         *)
(***************************************************************************)
Digits36 ==
    << "0", "1", "2", "3", "4", "5", "6", "7", "8", "9", "a", "b", "c", "d", "e",
       "f", "g", "h", "i", "j", "k", "l", "m", "n", "o", "p", "q", "r", "s", "t",
       "u", "v", "w", "x", "y", "z" >>

\* n.toString(36)
RECURSIVE ToString36(_)
ToString36(n) ==
    IF n < 36 THEN <<Digits36[n + 1]>>
    ELSE ToString36(n \div 36) \o <<Digits36[(n % 36) + 1]>>

\* bytes.toString('hex') of len / 2 bytes holding the integer i
RECURSIVE ToHex(_, _)
ToHex(i, len) ==
    IF len = 0 THEN <<>>
    ELSE ToHex(i \div 16, len - 1) \o <<Digits36[(i % 16) + 1]>>

\* generateUniqueID, given what Date.now() and randomBytes(6) return
generateUniqueID(dateNow, bytes) ==
    ToString36(dateNow) \o <<"-">> \o ToHex(bytes, 12)

\* s.trim()
RECURSIVE TrimStart(_)
TrimStart(s) ==
    IF s # <<>> /\ Head(s) \in {" ", "\t", "\n"} THEN TrimStart(Tail(s)) ELSE s

RECURSIVE TrimEnd(_)
TrimEnd(s) ==
    IF s # <<>> /\ s[Len(s)] \in {" ", "\t", "\n"}
    THEN TrimEnd(SubSeq(s, 1, Len(s) - 1))
    ELSE s

Trim(s) == TrimEnd(TrimStart(s))

\* A slip: the trim is left out
InvalidUserID_NoTrim(userID) ==
    \/ userID \in {UndefinedValue, NullValue}
    \/ userID = <<>>
    \/ userID = NonStringValue

\* !userID || typeof userID !== 'string' || userID.trim() === ''
InvalidUserID(userID) ==
    \/ userID \in {UndefinedValue, NullValue}
    \/ userID = <<>>
    \/ userID = NonStringValue
    \/ Trim(userID) = <<>>

(***************************************************************************)
(* JSON.  The text of a number is its decimal digits: the integer part and *)
(* the fraction part without trailing zeros.  The text of the result is    *)
(* the sequence of its six fields <<name, number text>>; wf is FALSE for a *)
(* text that is not JSON.                                                  *)
(***************************************************************************)
\* The limbs from limb i down as three decimal digits each
RECURSIVE LimbDigits(_, _)
LimbDigits(a, i) ==
    IF i > Len(a) THEN <<>>
    ELSE LimbDigits(a, i + 1) \o <<a[i] \div 100, (a[i] \div 10) % 10, a[i] % 10>>

RECURSIVE StripLeadingZeros(_)
StripLeadingZeros(ds) ==
    IF ds # <<>> /\ Head(ds) = 0 THEN StripLeadingZeros(Tail(ds)) ELSE ds

RECURSIVE StripTrailingZeros(_)
StripTrailingZeros(ds) ==
    IF ds # <<>> /\ ds[Len(ds)] = 0
    THEN StripTrailingZeros(SubSeq(ds, 1, Len(ds) - 1))
    ELSE ds

\* A slip: the number is written without its fraction
NumberText_Truncated(x) ==
    LET int == StripLeadingZeros(LimbDigits(x, 2))
    IN  [int |-> IF int = <<>> THEN <<0>> ELSE int, frac |-> <<>>]

\* The text JSON.stringify writes for the number x
NumberText(x) ==
    LET int == StripLeadingZeros(LimbDigits(x, 2))
        frac == IF x = <<>> THEN <<>> ELSE StripTrailingZeros(LimbDigits(<<x[1]>>, 1))
    IN  [int |-> IF int = <<>> THEN <<0>> ELSE int, frac |-> frac]

RECURSIVE DigitsValue(_, _)
DigitsValue(ds, acc) ==
    IF ds = <<>> THEN acc
    ELSE DigitsValue(Tail(ds), Add(MulSmall(acc, 10), Limbs(Head(ds))))

RECURSIVE PadRight(_, _)
PadRight(ds, len) == IF Len(ds) >= len THEN ds ELSE PadRight(ds \o <<0>>, len)

\* The number JSON.parse reads from a number text
NumberValue(t) == DigitsValue(t.int \o PadRight(t.frac, 3), <<>>)

ResultFields ==
    << "grossIncome", "totalDeductions", "taxableIncome", "taxOwed",
       "effectiveTaxRate", "afterTaxIncome" >>

\* JSON.stringify(result)
JsonStringify(result) ==
    [wf |-> TRUE,
     pairs |-> [i \in 1..Len(ResultFields) |->
                    <<ResultFields[i], NumberText(result[ResultFields[i]])>>]]

\* The member of a JSON object text named name
Member(text, name) ==
    text.pairs[CHOOSE i \in 1..Len(text.pairs) : text.pairs[i][1] = name][2]

\* JSON.parse(text): [ok, v]; ok is FALSE when it throws a SyntaxError
JsonParse(text) ==
    IF ~text.wf THEN [ok |-> FALSE, v |-> NoCalc]
    ELSE [ok |-> TRUE,
          v |-> [f \in {ResultFields[i] : i \in 1..Len(ResultFields)} |->
                     NumberValue(Member(text, f))]]

(***************************************************************************)
(* Redis: SETEX and GET on the keyspace, with expiry.                      *)
(***************************************************************************)
\* 60 * 60 * 24
TtlSeconds_Hour == 60 * 60

\* The ttl argument of setEx
TtlSeconds == 60 * 60 * 24

Live(key) ==
    /\ key \in DOMAIN store
    /\ (store[key].expireAt = NoExpiry \/ now < store[key].expireAt)

\* The reply of GET key
RedisGet(key) ==
    IF Live(key) THEN [st |-> "value", val |-> store[key].val]
    ELSE [st |-> "nil", val |-> NoText]

\* The keyspace after SETEX key seconds value
RedisSetEx(key, seconds, value) ==
    (key :> [val |-> value, expireAt |-> now + seconds * 1000]) @@ store

\* The keyspace at time t: expired keys are gone
Expire(t) ==
    [k \in {k \in DOMAIN store :
                store[k].expireAt = NoExpiry \/ t < store[k].expireAt} |-> store[k]]

(***************************************************************************)
(* Responses.  kind is "json" (res.status(..).json(..), status 200 when    *)
(* none is set), "next" (next(error)) or "none"; sent and nexts count the  *)
(* calls of res.json and of next on the handler's path.                    *)
(***************************************************************************)
Json(status, success, message, userID, taxCalculation) ==
    [kind |-> "json", status |-> status, success |-> success, message |-> message,
     userID |-> userID, taxCalculation |-> taxCalculation, sent |-> 1, nexts |-> 0]

NextError(message) ==
    [kind |-> "next", status |-> 0, success |-> "absent", message |-> message,
     userID |-> UndefinedValue, taxCalculation |-> NoCalc, sent |-> 0, nexts |-> 1]

\* calculate: a validation failure
BadRequest(message) == Json(400, "false", message, UndefinedValue, NoCalc)

\* A slip: the failure of the save is forwarded to the error handler
DegradedResponse_Forward(result) == NextError("Redis storage error")

\* A slip: the catch of the save answers without returning, so line 210
\* answers again on a response already sent, which throws into the outer catch
DegradedResponse_NoReturn(result) ==
    [Json(200, "true",
          "Tax calculation successful! (Note: Unable to save for later retrieval)",
          NullValue, result) EXCEPT !.nexts = 1]

\* calculate: the catch of the save (lines 199-208)
DegradedResponse(result) ==
    Json(200, "true",
         "Tax calculation successful! (Note: Unable to save for later retrieval)",
         NullValue, result)

\* A slip: the response after the save leaves the result out
SavedResponse_NoResult(userID, result) ==
    Json(200, "true", "Tax calculation successful!", userID, NoCalc)

\* calculate: the response after the save (line 210)
SavedResponse(userID, result) ==
    Json(200, "true", "Tax calculation successful!", userID, result)

\* !fromRedis, if (data): the reply of GET is null or the empty string
FalsyReply(reply) ==
    reply.st = "nil" \/ (reply.st = "value" /\ reply.val = EmptyString)

\* getCalculation after its validation (lines 225-237), given the outcome of
\* getRedisClient().get(userID)
GetResponse(userID, reply) ==
    IF reply.st \in {"noClient", "rejected"} THEN NextError("Redis read failed")
    ELSE IF FalsyReply(reply)
    THEN Json(404, "false", "Tax calculation not found or expired!", UndefinedValue, NoCalc)
    ELSE IF ~JsonParse(reply.val).ok THEN NextError("SyntaxError")
    ELSE Json(200, "true", "Tax calculation retrieved successfully!", userID,
              JsonParse(reply.val).v)

(***************************************************************************)
(* The server.  Each slot holds one request; a handler runs from its call  *)
(* to its first await in one step, and from the settling of the awaited    *)
(* promise to its end in another.                                          *)
(***************************************************************************)
MaxIds == 2
MaxRandom == 2
MaxTicks == 1
MaxReaders == 1

\* The clock step: the lifetime of a stored result, in ms
TickLong == TtlSeconds * 1000

\* Request bodies of calculate: scenario A, a body whose result has
\* fraction digits, and bodies that fail validation: a field that is not a
\* number, negative, not finite, or above the bound
ServerBodies ==
    { [monthlyGrossIncome |-> m, additionalMonthlyIncome |-> Undefined,
       annualPensionContributions |-> Undefined, annualNHFContributions |-> Undefined,
       annualRentPaid |-> r, lifeInsurancePremiums |-> Undefined] :
          <<m, r>> \in { <<JsNumber(Naira(500000)), Undefined>>,
                         <<JsNumber(Naira(283401)), JsNumber(Naira(4))>>,
                         <<JsString, Undefined>>,
                         <<JsNumber(Naira(500000)), JsNegative(Naira(1))>>,
                         <<JsNumber(Naira(500000)), JsInfinity>>,
                         <<JsNumber(Naira(500000)),
                           JsNumber(Add(MAX_REASONABLE_VALUE, Naira(1)))>> } }

\* calculate's result object for each body that passes validation
ServerResults ==
    [b \in {x \in ServerBodies : Validate(x) = "ok"} |-> CalcResult(b)]

MissingKey == <<"n", "o", "n", "e">>

\* The userID a retrieve or chat request may carry
UserIDs ==
    {idLog[i].id : i \in 1..Len(idLog)}
        \cup {MissingKey, ForeignKey, EmptyKey, <<" ">>, UndefinedValue}
        \cup {<<>>, <<" ", "\t">>, NonStringValue}

\* A new request is served in the lowest free slot
Free(r) ==
    /\ req[r].op = "idle"
    /\ \A q \in 1..(r - 1) : req[q].op # "idle"

\* The number of slots held by a request that only reads the store
Readers == Cardinality({q \in Slots : req[q].op \in {"getCalculation", "startChat"}})

Done(r, reply, resp) ==
    req' = [req EXCEPT ![r].pc = "done", ![r].reply = reply, ![r].resp = resp]

\* connectRedis
ConnectRedis ==
    /\ redisClient = "undefined"
    /\ redisClient' = "ready"
    /\ UNCHANGED <<engineVars, processVars, store, now, req, idLog, saved>>

\* calculate, a body that fails validation: the 400 response
CalculateReject(r, b) ==
    /\ Free(r)
    /\ Validate(b) # "ok"
    /\ req' = [req EXCEPT ![r] = [IdleReq EXCEPT !.op = "calculate", !.pc = "done",
                                      !.input = b, !.resp = BadRequest(Validate(b))]]
    /\ UNCHANGED <<engineVars, processVars, redisClient, store, now, idLog, saved>>

\* calculate, a body that passes validation, up to the await of setEx.
\* how is what the save does before the await: "noClient" (getRedisClient
\* throws), "threw" (setEx throws) or "pending" (setEx returns a promise).
CalculateSave(r, b, bytes, how) ==
    /\ Free(r)
    /\ Validate(b) = "ok"
    /\ Len(idLog) < MaxIds
    /\ how = "noClient" <=> redisClient = "undefined"
    /\ LET result == ServerResults[b]
           userID == generateUniqueID(now, bytes)
           started == [IdleReq EXCEPT !.op = "calculate", !.input = b,
                                      !.userID = userID, !.result = result]
       IN  /\ idLog' = Append(idLog, [id |-> userID, dateNow |-> now, bytes |-> bytes])
           /\ req' = [req EXCEPT ![r] =
                        IF how = "pending"
                        THEN [started EXCEPT
                                 !.pc = "awaitSetEx",
                                 !.cmd = [key |-> userID, seconds |-> TtlSeconds,
                                          value |-> JsonStringify(result)],
                                 !.reply = [st |-> "pending", val |-> NoText]]
                        ELSE [started EXCEPT
                                 !.pc = "done",
                                 !.reply = [st |-> how, val |-> NoText],
                                 !.resp = DegradedResponse(result)]]
    /\ UNCHANGED <<engineVars, processVars, redisClient, store, now, saved>>

\* Redis executes the SETEX of slot r and acknowledges it; calculate resumes
\* after the await and answers (line 210)
RedisSetExOk(r) ==
    /\ req[r].pc = "awaitSetEx"
    /\ store' = RedisSetEx(req[r].cmd.key, req[r].cmd.seconds, req[r].cmd.value)
    /\ saved' = (req[r].cmd.key :> [at |-> now, result |-> req[r].result]) @@ saved
    /\ Done(r, [st |-> "ok", val |-> NoText], SavedResponse(req[r].userID, req[r].result))
    /\ UNCHANGED <<engineVars, processVars, redisClient, now, idLog>>

\* A slip: after a rejected SETEX the save is attempted again
RedisSetExRejected_Retry(r) ==
    /\ req[r].pc = "awaitSetEx"
    /\ req[r].reply.st = "pending"
    /\ req' = [req EXCEPT ![r].reply = [st |-> "retrying", val |-> NoText]]
    /\ UNCHANGED <<engineVars, processVars, redisClient, store, now, idLog, saved>>

\* A slip: a rejected SETEX is attempted again, as often as it is rejected
RedisSetExRejected_RetryForever(r) ==
    /\ req[r].pc = "awaitSetEx"
    /\ req' = [req EXCEPT ![r].reply =
                  [st |-> IF req[r].reply.st = "pending" THEN "retrying" ELSE "pending",
                   val |-> NoText]]
    /\ UNCHANGED <<engineVars, processVars, redisClient, store, now, idLog, saved>>

\* A slip: the catch of the save answers like line 210, userID included
RedisSetExRejected_KeepsId(r) ==
    /\ req[r].pc = "awaitSetEx"
    /\ Done(r, [st |-> "rejected", val |-> NoText],
            SavedResponse(req[r].userID, req[r].result))
    /\ UNCHANGED <<engineVars, processVars, redisClient, store, now, idLog, saved>>

\* The SETEX of slot r fails: the promise is rejected; calculate resumes in
\* the catch (lines 199-208)
RedisSetExRejected(r) ==
    /\ req[r].pc = "awaitSetEx"
    /\ Done(r, [st |-> "rejected", val |-> NoText], DegradedResponse(req[r].result))
    /\ UNCHANGED <<engineVars, processVars, redisClient, store, now, idLog, saved>>

\* getCalculation up to the await of get
GetCalculation(r, userID) ==
    /\ Free(r)
    /\ Readers < MaxReaders
    /\ LET started == [IdleReq EXCEPT !.op = "getCalculation", !.input = userID]
       IN  req' = [req EXCEPT ![r] =
                     IF InvalidUserID(userID)
                     THEN [started EXCEPT
                              !.pc = "done",
                              !.resp = Json(400, "false", "Valid user ID is required!",
                                            UndefinedValue, NoCalc)]
                     ELSE IF redisClient = "undefined"
                     THEN [started EXCEPT
                              !.pc = "done",
                              !.reply = [st |-> "noClient", val |-> NoText],
                              !.resp = GetResponse(userID, [st |-> "noClient", val |-> NoText])]
                     ELSE [started EXCEPT
                              !.pc = "awaitGet",
                              !.reply = [st |-> "pending", val |-> NoText]]]
    /\ UNCHANGED <<engineVars, processVars, redisClient, store, now, idLog, saved>>

\* Redis executes the GET of slot r; getCalculation resumes after the await
\* and answers (lines 228-237)
GetCalculationResume(r) ==
    /\ req[r].op = "getCalculation"
    /\ req[r].pc = "awaitGet"
    /\ Done(r, RedisGet(req[r].input), GetResponse(req[r].input, RedisGet(req[r].input)))
    /\ UNCHANGED <<engineVars, processVars, redisClient, store, now, idLog, saved>>

\* The GET of slot r fails: the promise is rejected; getCalculation resumes
\* in the catch (lines 235-237)
GetCalculationRejected(r) ==
    /\ req[r].op = "getCalculation"
    /\ req[r].pc = "awaitGet"
    /\ Done(r, [st |-> "rejected", val |-> NoText],
            GetResponse(req[r].input, [st |-> "rejected", val |-> NoText]))
    /\ UNCHANGED <<engineVars, processVars, redisClient, store, now, idLog, saved>>

\* The prompt of a chat request: absent, or a string of some length
Prompts ==
    {[t |-> "undefined", length |-> 0]}
        \cup {[t |-> "string", length |-> n] : n \in {200, 201}}

\* !prompt: the prompt is undefined, null or the empty string
MissingPrompt(prompt) ==
    prompt.t \in {"undefined", "null"} \/ (prompt.t = "string" /\ prompt.length = 0)

\* A slip: a prompt of exactly 200 characters is refused too
PromptTooLong_Inclusive(prompt) == prompt.length >= 200

\* prompt.length > 200
PromptTooLong(prompt) == prompt.length > 200

\* The environment schema requires GEMINI_MODEL, so !GEMINI_MODEL is false
GEMINI_MODEL == "gemini"

\* startChat up to the await of get (lines 53-79)
StartChat(r, prompt, userID) ==
    /\ Free(r)
    /\ Readers < MaxReaders
    /\ LET started == [IdleReq EXCEPT !.op = "startChat", !.input = userID,
                                      !.prompt = prompt]
           error == [kind |-> "json", status |-> 400, success |-> "absent",
                     message |-> "", userID |-> UndefinedValue,
                     taxCalculation |-> NoCalc, sent |-> 1, nexts |-> 0]
       IN  req' = [req EXCEPT ![r] =
                     IF MissingPrompt(prompt)
                     THEN [started EXCEPT
                              !.pc = "done",
                              !.resp = [error EXCEPT !.message = "No prompt provided"]]
                     ELSE IF PromptTooLong(prompt)
                     THEN [started EXCEPT
                              !.pc = "done",
                              !.resp = [error EXCEPT !.message = "Prompt length exceeded."]]
                     ELSE IF InvalidUserID(userID)
                     THEN [started EXCEPT
                              !.pc = "done",
                              !.resp = Json(400, "false", "Valid user ID is required!",
                                            UndefinedValue, NoCalc)]
                     ELSE IF GEMINI_MODEL = ""
                     THEN [started EXCEPT
                              !.pc = "done",
                              !.resp = NextError("No Gemini model configured")]
                     ELSE IF redisClient = "undefined"
                     THEN [started EXCEPT
                              !.pc = "done",
                              !.reply = [st |-> "noClient", val |-> NoText],
                              !.resp = NextError("Error getting tax context")]
                     ELSE [started EXCEPT
                              !.pc = "awaitGet",
                              !.reply = [st |-> "pending", val |-> NoText]]]
    /\ UNCHANGED <<engineVars, processVars, redisClient, store, now, idLog, saved>>

\* startChat after the await of get (lines 80-85), given the reply: the
\* request fails, or goes on to the await of the model
ChatAfterGet(r, reply) ==
    IF reply.st = "rejected" \/ (~FalsyReply(reply) /\ ~JsonParse(reply.val).ok)
    THEN Done(r, reply, NextError("Error getting tax context"))
    ELSE req' = [req EXCEPT
                    ![r].pc = "awaitAI",
                    ![r].reply = reply,
                    ![r].result = IF ~FalsyReply(reply)
                                  THEN JsonParse(reply.val).v
                                  ELSE NoCalc]

\* Redis executes the GET of slot r; startChat resumes after the await
StartChatResume(r) ==
    /\ req[r].op = "startChat"
    /\ req[r].pc = "awaitGet"
    /\ ChatAfterGet(r, RedisGet(req[r].input))
    /\ UNCHANGED <<engineVars, processVars, redisClient, store, now, idLog, saved>>

\* The GET of slot r fails: the promise is rejected; startChat resumes
StartChatRejected(r) ==
    /\ req[r].op = "startChat"
    /\ req[r].pc = "awaitGet"
    /\ ChatAfterGet(r, [st |-> "rejected", val |-> NoText])
    /\ UNCHANGED <<engineVars, processVars, redisClient, store, now, idLog, saved>>

\* chat.sendMessage resolves: the reply is sent (lines 144-146)
ChatReply(r) ==
    /\ req[r].pc = "awaitAI"
    /\ Done(r, req[r].reply,
            [kind |-> "json", status |-> 200, success |-> "absent",
             message |-> "AIResponse", userID |-> UndefinedValue,
             taxCalculation |-> NoCalc, sent |-> 1, nexts |-> 0])
    /\ UNCHANGED <<engineVars, processVars, redisClient, store, now, idLog, saved>>

\* chat.sendMessage rejects (lines 147-150)
ChatFails(r) ==
    /\ req[r].pc = "awaitAI"
    /\ Done(r, req[r].reply, NextError("Error during chat"))
    /\ UNCHANGED <<engineVars, processVars, redisClient, store, now, idLog, saved>>

\* The response of slot r has been delivered: the slot serves the next request
Release(r) ==
    /\ req[r].pc = "done"
    /\ req' = [req EXCEPT ![r] = IdleReq]
    /\ UNCHANGED <<engineVars, processVars, redisClient, store, now, idLog, saved>>

\* The lifetime of a stored result passes
Tick ==
    /\ now \div TickLong < MaxTicks
    /\ now' = now + TickLong
    /\ store' = Expire(now + TickLong)
    /\ UNCHANGED <<engineVars, processVars, redisClient, req, idLog, saved>>

Init ==
    /\ taxArg = <<>>
    /\ taxRes = NoTax
    /\ body = <<>>
    /\ locals = <<>>
    /\ ServerInit
    /\ ProcessInit

Next ==
    \/ ConnectRedis
    \/ \E r \in Slots, b \in ServerBodies : CalculateReject(r, b)
    \/ \E r \in Slots, b \in ServerBodies, bytes \in 0..(MaxRandom - 1),
          how \in {"noClient", "threw", "pending"} : CalculateSave(r, b, bytes, how)
    \/ \E r \in Slots : RedisSetExOk(r)
    \/ \E r \in Slots : RedisSetExRejected(r)
    \/ \E r \in Slots, userID \in UserIDs : GetCalculation(r, userID)
    \/ \E r \in Slots : GetCalculationResume(r)
    \/ \E r \in Slots : GetCalculationRejected(r)
    \/ \E r \in Slots, prompt \in Prompts, userID \in UserIDs : StartChat(r, prompt, userID)
    \/ \E r \in Slots : StartChatResume(r)
    \/ \E r \in Slots : StartChatRejected(r)
    \/ \E r \in Slots : ChatReply(r)
    \/ \E r \in Slots : ChatFails(r)
    \/ \E r \in Slots : Release(r)
    \/ Tick

Spec == Init /\ [][Next]_vars

(***************************************************************************)
(* CalculateSpec: the calculate handler alone, with the settling of its    *)
(* save.  The client settles every command it was handed: by the reply of  *)
(* the server, or by rejecting it when the connection fails or times out   *)
(* (connectTimeout, reconnectStrategy); the event loop then resumes the    *)
(* handler.  That is the fairness stated here.                             *)
(***************************************************************************)
\* The promise of slot r's setEx settles
SetExSettles(r) == RedisSetExOk(r) \/ RedisSetExRejected(r)

CalculateNext ==
    \/ ConnectRedis
    \/ \E r \in Slots, b \in ServerBodies : CalculateReject(r, b)
    \/ \E r \in Slots, b \in ServerBodies, bytes \in 0..(MaxRandom - 1),
          how \in {"noClient", "threw", "pending"} : CalculateSave(r, b, bytes, how)
    \/ \E r \in Slots : RedisSetExOk(r)
    \/ \E r \in Slots : RedisSetExRejected(r)
    \/ \E r \in Slots : Release(r)
    \/ Tick

CalculateSpec ==
    /\ Init
    /\ [][CalculateNext]_vars
    /\ \A r \in Slots : WF_vars(SetExSettles(r))

(***************************************************************************)
(* ChatSpec: the startChat handler, with prompts of every kind the tests   *)
(* of lines 56-64 tell apart, beside compute requests of one body that     *)
(* fill the store.                                                         *)
(***************************************************************************)
\* Prompts: undefined, null, and strings of 0, 1, 199, 200, 201 and 202
\* characters
ChatPrompts ==
    {[t |-> k, length |-> 0] : k \in {"undefined", "null"}}
        \cup {[t |-> "string", length |-> n] : n \in {0, 1, 199, 200, 201, 202}}

\* The body of the compute requests: scenario A
ChatBodies == {b \in ServerBodies : b.monthlyGrossIncome = JsNumber(Naira(500000))
                                      /\ b.annualRentPaid = Undefined}

ChatNext ==
    \/ ConnectRedis
    \/ \E r \in Slots, b \in ChatBodies, how \in {"noClient", "pending"} :
          CalculateSave(r, b, 0, how)
    \/ \E r \in Slots : RedisSetExOk(r)
    \/ \E r \in Slots, prompt \in ChatPrompts, userID \in UserIDs :
          StartChat(r, prompt, userID)
    \/ \E r \in Slots : StartChatResume(r)
    \/ \E r \in Slots : StartChatRejected(r)
    \/ \E r \in Slots : ChatReply(r)
    \/ \E r \in Slots : ChatFails(r)
    \/ \E r \in Slots : Release(r)
    \/ Tick

ChatSpec == Init /\ [][ChatNext]_vars

(***************************************************************************)
(* ErrorSpec: errorMiddleware applied to one error.  A text is a sequence  *)
(* of pieces, the empty string the empty sequence.                         *)
(***************************************************************************)
\* A property of err that holds a number or is undefined
NoNumber == [t |-> "undefined", v |-> 0]
Num(n) == [t |-> "number", v |-> n]

\* err.errors: undefined, or an object whose values carry these messages
NoErrors == [t |-> "undefined", vals |-> <<>>]
ErrorsObject(vals) == [t |-> "object", vals |-> vals]

\* A slip: err.statusCode ?? 500, which keeps a statusCode of 0
InitialStatus_Nullish(err) ==
    IF err.statusCode.t = "number" THEN err.statusCode.v ELSE 500

\* err.statusCode || 500 (line 50)
InitialStatus(err) ==
    IF err.statusCode.t = "number" /\ err.statusCode.v # 0
    THEN err.statusCode.v ELSE 500

\* err.message || "Internal server error" (line 51)
InitialMessage(err) ==
    IF err.message # <<>> THEN err.message ELSE <<"Internal server error">>

\* Object.values(err.errors).map((val) => val.message).join(", ")
RECURSIVE JoinMessages(_)
JoinMessages(vals) ==
    IF vals = <<>> THEN <<>>
    ELSE IF Len(vals) = 1 THEN <<vals[1]>>
    ELSE <<vals[1], ", ">> \o JoinMessages(Tail(vals))

\* errorMiddleware (lines 41-90): the status and the body it answers with.
\* Each test of lines 54-80 overwrites what the ones before it chose.
errorMiddleware(err, isDev) ==
    LET s0 == [statusCode |-> InitialStatus(err), message |-> InitialMessage(err)]
        s1 == IF err.name = "CastError"
              THEN [statusCode |-> 404, message |-> <<"Resource not found">>]
              ELSE s0
        s2 == IF err.code = Num(11000)
              THEN [statusCode |-> 400, message |-> <<"Duplicate field value entered">>]
              ELSE s1
        s3 == IF err.name = "ValidationError" /\ err.errors.t = "object"
              THEN [statusCode |-> 400, message |-> JoinMessages(err.errors.vals)]
              ELSE s2
        s4 == IF err.name = "JsonWebTokenError"
              THEN [statusCode |-> 401, message |-> <<"Invalid token">>]
              ELSE s3
        s5 == IF err.name = "TokenExpiredError"
              THEN [statusCode |-> 401, message |-> <<"Token expired">>]
              ELSE s4
    IN  [status |-> s5.statusCode, success |-> FALSE, message |-> s5.message,
         stack |-> isDev]

\* The errors handed to the middleware
ErrorNames ==
    {"Error", "CastError", "ValidationError", "JsonWebTokenError", "TokenExpiredError"}
StatusCodes == {NoNumber} \cup {Num(n) : n \in {0, 400, 401, 404, 418, 500}}
ErrorCodes == {NoNumber, Num(11000), Num(42)}
ErrorsValues ==
    {NoErrors} \cup {ErrorsObject(v) : v \in {<<>>, <<"a">>, <<"a", "b">>}}
ErrorMessages == {<<>>, <<"boom">>}
Errors ==
    [name : ErrorNames, statusCode : StatusCodes, code : ErrorCodes,
     errors : ErrorsValues, message : ErrorMessages]

ErrorInit ==
    /\ taxArg = <<>>
    /\ taxRes = NoTax
    /\ body = <<>>
    /\ locals = <<>>
    /\ ServerInit
    /\ errorCall \in [st : {"called"}, err : Errors, isDev : BOOLEAN]
    /\ proc = NoProc
    /\ sock = NoSock

\* The call of errorMiddleware runs
ErrorMiddleware ==
    /\ errorCall.st = "called"
    /\ errorCall' = [st |-> "answered", err |-> errorCall.err, isDev |-> errorCall.isDev,
                     res |-> errorMiddleware(errorCall.err, errorCall.isDev)]
    /\ UNCHANGED <<engineVars, serverVars, proc, sock>>

ErrorNext == ErrorMiddleware

ErrorSpec == ErrorInit /\ [][ErrorNext]_vars

(***************************************************************************)
(* ShutdownSpec: the signal handlers of disconnectors.ts.  The cleanup     *)
(* handlers are registered when the modules load (dbconnect.ts line 68,    *)
(* redis.config.ts line 101), before any signal is handled; each is an     *)
(* async function, so a call of it returns a promise and does not throw.   *)
(***************************************************************************)
MaxHandlers == 3
MaxSignals == 3

Signals == {"SIGINT", "SIGTERM"}

\* cleanupHandlers.map((handler) => handler()): every handler is called and
\* its promise is pending
InvokeAll(handlers) ==
    [i \in DOMAIN handlers |-> [st |-> "pending", calls |-> handlers[i].calls + 1]]

ShutdownInit ==
    /\ taxArg = <<>>
    /\ taxRes = NoTax
    /\ body = <<>>
    /\ locals = <<>>
    /\ ServerInit
    /\ errorCall = NoErrorCall
    /\ sock = NoSock
    /\ \E n \in 0..MaxHandlers :
          proc = [st |-> "running", isShuttingDown |-> FALSE,
                  handlers |-> [i \in 1..n |-> [st |-> "idle", calls |-> 0]],
                  shutdowns |-> 0, signals |-> <<>>, exitCode |-> "none"]

\* A slip: handleSignal without the test of isShuttingDown
HandleSignal_NoGuard(signal) ==
    /\ proc.st = "running"
    /\ Len(proc.signals) < MaxSignals
    /\ proc' = [proc EXCEPT !.signals = Append(@, signal),
                            !.isShuttingDown = TRUE,
                            !.handlers = InvokeAll(@),
                            !.shutdowns = @ + 1]
    /\ UNCHANGED <<engineVars, serverVars, errorCall, sock>>

\* A signal is delivered: handleSignal (lines 31-35), and shutdown up to its
\* await (lines 12-19)
HandleSignal(signal) ==
    /\ proc.st = "running"
    /\ Len(proc.signals) < MaxSignals
    /\ proc' = IF proc.isShuttingDown
               THEN [proc EXCEPT !.signals = Append(@, signal)]
               ELSE [proc EXCEPT !.signals = Append(@, signal),
                                 !.isShuttingDown = TRUE,
                                 !.handlers = InvokeAll(@),
                                 !.shutdowns = @ + 1]
    /\ UNCHANGED <<engineVars, serverVars, errorCall, sock>>

\* The promise of handler i settles
HandlerSettles(i, outcome) ==
    /\ proc.st = "running"
    /\ i \in DOMAIN proc.handlers
    /\ proc.handlers[i].st = "pending"
    /\ proc' = [proc EXCEPT !.handlers[i].st = outcome]
    /\ UNCHANGED <<engineVars, serverVars, errorCall, sock>>

\* Promise.allSettled resolves once no promise is pending and never rejects;
\* shutdown resumes and exits (lines 20-21)
ShutdownResumes ==
    /\ proc.st = "running"
    /\ proc.shutdowns > 0
    /\ \A i \in DOMAIN proc.handlers : proc.handlers[i].st \in {"fulfilled", "rejected"}
    /\ proc' = [proc EXCEPT !.st = "exited", !.exitCode = 0]
    /\ UNCHANGED <<engineVars, serverVars, errorCall, sock>>

ShutdownNext ==
    \/ \E signal \in Signals : HandleSignal(signal)
    \/ \E i \in 1..MaxHandlers, outcome \in {"fulfilled", "rejected"} :
          HandlerSettles(i, outcome)
    \/ ShutdownResumes

ShutdownSpec == ShutdownInit /\ [][ShutdownNext]_vars

(***************************************************************************)
(* ReconnectSpec: the socket of the Redis client.  When the connection is  *)
(* lost the client calls reconnectStrategy with the number of retries so   *)
(* far, waits the delay it returns and tries again; the count starts anew  *)
(* once a connection is made.  Whether the count starts at 0 or at 1 is    *)
(* the client library's choice, so both are drawn.                         *)
(***************************************************************************)
MaxDrops == 6

\* reconnectStrategy (lines 40-49)
reconnectStrategy(retries) ==
    IF retries > 10 THEN [t |-> "error", delay |-> 0]
    ELSE [t |-> "delay", delay |-> MathMinInt(retries * 100, 3000)]

\* The socket after the strategy was asked with this number of retries
Asked(retries) ==
    LET answer == reconnectStrategy(retries)
    IN  [sock EXCEPT
            !.st = IF answer.t = "error" THEN "closed" ELSE "waiting",
            !.retries = retries,
            !.delays = IF answer.t = "error" THEN @ ELSE Append(@, answer.delay)]

ReconnectInit ==
    /\ taxArg = <<>>
    /\ taxRes = NoTax
    /\ body = <<>>
    /\ locals = <<>>
    /\ ServerInit
    /\ errorCall = NoErrorCall
    /\ proc = NoProc
    /\ \E first \in {0, 1} :
          sock = [st |-> "ready", first |-> first, retries |-> 0, delays |-> <<>>,
                  drops |-> 0]

\* The connection is lost
ConnectionLost ==
    /\ sock.st = "ready"
    /\ sock.drops < MaxDrops
    /\ sock' = [Asked(sock.first) EXCEPT !.drops = sock.drops + 1]
    /\ UNCHANGED <<engineVars, serverVars, errorCall, proc>>

\* The delay is over and the attempt to connect fails
ReconnectFails ==
    /\ sock.st = "waiting"
    /\ sock' = Asked(sock.retries + 1)
    /\ UNCHANGED <<engineVars, serverVars, errorCall, proc>>

\* The delay is over and the attempt to connect succeeds
Reconnects ==
    /\ sock.st = "waiting"
    /\ sock' = [sock EXCEPT !.st = "ready", !.retries = 0, !.delays = <<>>]
    /\ UNCHANGED <<engineVars, serverVars, errorCall, proc>>

ReconnectNext == ConnectionLost \/ ReconnectFails \/ Reconnects

ReconnectSpec == ReconnectInit /\ [][ReconnectNext]_vars

(***************************************************************************)
(* Claims about the tax engine.                                            *)
(***************************************************************************)
\* The tax of a taxable income t by the reference table of cumulative bands:
\* the part of t between lo and hi (hi unbounded for the last band)
BandPart(t, lo, hi, unbounded) ==
    IF Leq(t, lo) THEN <<>>
    ELSE IF unbounded \/ Leq(t, hi) THEN Sub(t, lo)
    ELSE Sub(hi, lo)

RefTax(t) ==
    Round2(
        Add(Times(BandPart(t, <<>>, Naira(800000), FALSE), 0),
        Add(Times(BandPart(t, Naira(800000), Naira(3000000), FALSE), 15),
        Add(Times(BandPart(t, Naira(3000000), Naira(12000000), FALSE), 18),
        Add(Times(BandPart(t, Naira(12000000), Naira(25000000), FALSE), 21),
        Add(Times(BandPart(t, Naira(25000000), Naira(50000000), FALSE), 23),
            Times(BandPart(t, Naira(50000000), <<>>, TRUE), 25)))))))

\* The tax due on each cumulative band boundary: the bands below it in full
BoundaryTax ==
    { <<Naira(800000), <<>> >>,
      <<Naira(3000000), Naira(330000)>>,
      <<Naira(12000000), Naira(1950000)>>,
      <<Naira(25000000), Naira(4680000)>>,
      <<Naira(50000000), Naira(10430000)>> }

\* C1: for every taxable income calculateNigeriaTax2026 returns the rounded
\* progressive sum over the six reference bands, and an income exactly on a
\* cumulative boundary is taxed in the bands below it only.
C1_ProgressiveSum ==
    taxRes.done =>
        /\ taxRes.v = RefTax(taxArg)
        /\ \A bt \in BoundaryTax : taxArg = bt[1] => taxRes.v = bt[2]

C1_Witness == taxRes.done /\ taxArg = Naira(12000000) /\ taxRes.v = Naira(1950000)

\* The body fields of the computed request, defaults applied
In(f) == Destructure(body)[f].v

\* C2: the pension deduction is min(contribution, 10% of gross), the NHF
\* deduction min(contribution, 5000), the life-insurance deduction
\* min(premium, min(50000, 10% of gross)): each is one of its bounds and
\* exceeds none of them.
C2_DeductionCaps ==
    locals.st = "computed" =>
        LET g == locals.l.grossIncome
            pd == locals.l.pensionDeduction
            nd == locals.l.nhfDeduction
            id == locals.l.insuranceDeduction
        IN  /\ Leq(pd, In("annualPensionContributions"))
            /\ Leq(MulSmall(pd, 10), g)
            /\ (pd = In("annualPensionContributions") \/ MulSmall(pd, 10) = g)
            /\ Leq(nd, In("annualNHFContributions"))
            /\ Leq(nd, Naira(5000))
            /\ (nd = In("annualNHFContributions") \/ nd = Naira(5000))
            /\ Leq(id, In("lifeInsurancePremiums"))
            /\ Leq(id, Naira(50000))
            /\ Leq(MulSmall(id, 10), g)
            /\ \/ id = In("lifeInsurancePremiums")
               \/ id = Naira(50000)
               \/ MulSmall(id, 10) = g

C2_Witness ==
    /\ locals.st = "computed"
    /\ In("monthlyGrossIncome") = Naira(500000)
    /\ body.additionalMonthlyIncome = Undefined
    /\ In("annualPensionContributions") = Naira(1000000)
    /\ In("annualNHFContributions") = Naira(10000)
    /\ In("lifeInsurancePremiums") = Naira(60000)
    /\ locals.l.pensionDeduction = Naira(600000)
    /\ locals.l.nhfDeduction = Naira(5000)
    /\ locals.l.insuranceDeduction = Naira(50000)

\* C3: rent relief is exactly 500000 when annualRentPaid > 500000 and exactly
\* 20% of annualRentPaid otherwise; it never exceeds 500000.
C3_RentRelief ==
    locals.st = "computed" =>
        LET r == In("annualRentPaid")
            rd == locals.l.rentDeduction
        IN  /\ Less(Naira(500000), r) => rd = Naira(500000)
            /\ Leq(r, Naira(500000)) => MulSmall(rd, 5) = r
            /\ Leq(rd, Naira(500000))
            /\ r = Naira(1000000) => rd = Naira(500000)
            /\ r = Naira(400000) => rd = Naira(80000)

C3_Witness ==
    /\ locals.st = "computed"
    /\ In("annualRentPaid") = Naira(1000000)
    /\ locals.l.rentDeduction = Naira(500000)

OnlyMonthly(n) ==
    body = [monthlyGrossIncome |-> JsNumber(Naira(n)),
            additionalMonthlyIncome |-> Undefined,
            annualPensionContributions |-> Undefined,
            annualNHFContributions |-> Undefined,
            annualRentPaid |-> Undefined,
            lifeInsurancePremiums |-> Undefined]

\* C4: grossIncome = (monthlyGrossIncome + additionalMonthlyIncome) * 12 with
\* absent fields as 0, taxableIncome = max(0, grossIncome - totalDeductions),
\* taxOwed is the tax of that taxable income; monthlyGrossIncome 500000 alone
\* gives 6000000, 6000000, 870000 and 5130000.
C4_GrossTaxableTax ==
    locals.st = "computed" =>
        LET g == locals.l.grossIncome
            td == locals.l.totalDeductions
            ti == locals.l.taxableIncome
        IN  /\ DivSmall(g, 12) = Add(In("monthlyGrossIncome"), In("additionalMonthlyIncome"))
            /\ MulSmall(DivSmall(g, 12), 12) = g
            /\ Less(g, td) => ti = <<>>
            /\ Leq(td, g) => Add(ti, td) = g
            /\ locals.l.taxOwed = RefTax(ti)
            /\ OnlyMonthly(500000) =>
                   locals.l.result =
                       [grossIncome |-> Naira(6000000),
                        totalDeductions |-> <<>>,
                        taxableIncome |-> Naira(6000000),
                        taxOwed |-> Naira(870000),
                        effectiveTaxRate |-> Milli(14500),
                        afterTaxIncome |-> Naira(5130000)]

C4_Witness ==
    /\ locals.st = "computed"
    /\ body.additionalMonthlyIncome # Undefined
    /\ In("monthlyGrossIncome") = Naira(1)
    /\ In("annualNHFContributions") = Naira(10000)
    /\ locals.l.grossIncome = Naira(1200012)
    /\ locals.l.taxableIncome = Sub(Naira(1200012), locals.l.totalDeductions)

\* An amount below 2^31 thousandths as an integer
RECURSIVE ToInt(_)
ToInt(a) == IF a = <<>> THEN 0 ELSE a[1] + Base * ToInt(SubSeq(a, 2, Len(a)))

\* x is a multiple of 0.01
TwoDecimals(x) == x = <<>> \/ x[1] % 10 = 0

\* C5: the returned taxOwed has two decimals, effectiveTaxRate is
\* taxOwed / grossIncome * 100 rounded to two decimals (0 for a zero gross
\* income) and afterTaxIncome is grossIncome - taxOwed rounded to two
\* decimals, both from the returned (rounded) taxOwed.
C5_RoundedFirst ==
    locals.st = "computed" =>
        LET res == locals.l.result
            g == locals.l.grossIncome
            t == res.taxOwed
            \* the rate in hundredths of a percent
            q == ToInt(DivSmall(res.effectiveTaxRate, 10))
        IN  /\ TwoDecimals(t)
            /\ TwoDecimals(res.effectiveTaxRate)
            /\ g = <<>> => res.effectiveTaxRate = <<>>
            /\ g # <<>> =>
                   \* q - 1/2 <= t / g * 10000 < q + 1/2
                   /\ Leq(MulSmall(g, 2 * q), Add(MulSmall(t, 20000), g))
                   /\ Less(Add(MulSmall(t, 20000), g), MulSmall(g, 2 * q + 2))
            /\ TwoDecimals(res.afterTaxIncome)
            /\ Add(res.afterTaxIncome, t) = g

\* The tax before rounding is 402146.016: the rate is 11.83 from the rounded
\* 402146.02 and would be 11.82 from the unrounded value.
C5_Witness ==
    /\ locals.st = "computed"
    /\ In("monthlyGrossIncome") = Naira(283401)
    /\ body.additionalMonthlyIncome = Undefined
    /\ body.annualPensionContributions = Undefined
    /\ body.annualNHFContributions = Undefined
    /\ body.lifeInsurancePremiums = Undefined
    /\ In("annualRentPaid") = Naira(4)
    /\ locals.l.result.taxOwed = Milli(402146020)
    /\ locals.l.result.effectiveTaxRate = Milli(11830)

(***************************************************************************)
(* Claims about the server.                                                *)
(***************************************************************************)
\* The slot r holds an answered request of handler op
Answered(r, op) == req[r].op = op /\ req[r].pc = "done"

DayInMs == 86400 * 1000

\* C6: for every accepted input calculate answers 200 with success = true
\* and the full computed result; when the save failed (no client, setEx
\* threw or its promise was rejected) the userID is null and the message
\* carries the note; the request never ends in next(error).
C6_SaveFailureDegrades ==
    \A r \in Slots :
        (Answered(r, "calculate") /\ Validate(req[r].input) = "ok") =>
            /\ req[r].resp.kind = "json"
            /\ req[r].resp.status = 200
            /\ req[r].resp.success = "true"
            /\ req[r].resp.taxCalculation = ServerResults[req[r].input]
            /\ req[r].reply.st \in {"noClient", "threw", "rejected"} =>
                   /\ req[r].resp.userID = NullValue
                   /\ req[r].resp.message =
                          "Tax calculation successful! (Note: Unable to save for later retrieval)"

\* One request answered without a client and another whose save was rejected
C6_Witness ==
    \E r, q \in Slots :
        /\ Answered(r, "calculate") /\ req[r].reply.st = "noClient"
        /\ Answered(q, "calculate") /\ req[q].reply.st = "rejected"
        /\ req[r].resp.userID = NullValue /\ req[q].resp.userID = NullValue
        /\ req[r].resp.taxCalculation = ServerResults[req[r].input]
        /\ req[q].resp.taxCalculation = ServerResults[req[q].input]

\* The store holds a live value under key
Holds(key) ==
    /\ key \in DOMAIN store
    /\ (store[key].expireAt = NoExpiry \/ now < store[key].expireAt)

\* The reply of the read is what the store holds under the identifier, or
\* nil when the key is missing or expired
C7_ReadsTheStore ==
    \A r \in Slots :
        (req[r].op = "getCalculation" /\ req[r].pc = "awaitGet"
            /\ req'[r].pc = "done" /\ req'[r].reply.st # "rejected") =>
            IF Holds(req[r].input)
            THEN req'[r].reply = [st |-> "value", val |-> store[req[r].input].val]
            ELSE req'[r].reply.st = "nil"

\* C7 as stated: a value that parses is answered 200 with that value and the
\* identifier echoed; a missing or expired key is answered 404; a failed read
\* or a value that cannot be deserialized ends in next(error) and no 200 or
\* 404 response.
C7_AsStated ==
    \A r \in Slots :
        (Answered(r, "getCalculation") /\ ~InvalidUserID(req[r].input)) =>
            LET reply == req[r].reply
                resp == req[r].resp
            IN  /\ (reply.st = "value" /\ JsonParse(reply.val).ok) =>
                       /\ resp.kind = "json" /\ resp.status = 200
                       /\ resp.success = "true"
                       /\ resp.userID = req[r].input
                       /\ resp.taxCalculation = JsonParse(reply.val).v
                /\ reply.st = "nil" =>
                       /\ resp.kind = "json" /\ resp.status = 404
                       /\ resp.success = "false"
                /\ (reply.st \in {"noClient", "rejected"}
                        \/ (reply.st = "value" /\ ~JsonParse(reply.val).ok)) =>
                       resp.kind = "next"

C7_Outcomes ==
    \A r \in Slots :
        (Answered(r, "getCalculation") /\ ~InvalidUserID(req[r].input)) =>
            LET reply == req[r].reply
                resp == req[r].resp
            IN  /\ reply.st \in {"value", "nil", "noClient", "rejected"}
                /\ (reply.st = "value" /\ JsonParse(reply.val).ok) =>
                       /\ resp.kind = "json" /\ resp.status = 200
                       /\ resp.success = "true"
                       /\ resp.userID = req[r].input
                       /\ resp.taxCalculation = JsonParse(reply.val).v
                /\ (reply.st = "nil" \/ (reply.st = "value" /\ reply.val = EmptyString)) =>
                       /\ resp.kind = "json" /\ resp.status = 404
                       /\ resp.success = "false"
                       /\ resp.taxCalculation = NoCalc
                /\ (reply.st \in {"noClient", "rejected"}
                        \/ (reply.st = "value" /\ reply.val # EmptyString
                                /\ ~JsonParse(reply.val).ok)) =>
                       resp.kind = "next"

\* C7, amended: getCalculation has three outcomes.  The read returns the
\* value the store holds under the identifier, or nil when the key is missing
\* or expired.  A value that parses is answered 200 with that value and the
\* identifier echoed; nil and the empty string are answered 404 with
\* success = false; a failed read or a non-empty value that does not parse
\* ends in next(error) and no response.
C7_ThreeOutcomes == []C7_Outcomes /\ [][C7_ReadsTheStore]_vars

\* A retrieve request for a key that holds the empty string, answered 404
C7_Witness ==
    \E r \in Slots :
        /\ Answered(r, "getCalculation")
        /\ req[r].reply = [st |-> "value", val |-> EmptyString]
        /\ req[r].resp.kind = "json"
        /\ req[r].resp.status = 404

\* C8: in the state in which calculate answers after an acknowledged save,
\* the store holds a live value under the returned userID, and getCalculation
\* reading that value answers 200 with that userID and a result equal, field
\* for field, to the one calculate returned.
C8_RoundTrip ==
    [][\A r \in Slots :
          (req[r].pc = "awaitSetEx" /\ req'[r].pc = "done" /\ req'[r].reply.st = "ok") =>
              LET k == req'[r].resp.userID
              IN  /\ k \in DOMAIN store'
                  /\ now' < store'[k].expireAt
                  /\ GetResponse(k, [st |-> "value", val |-> store'[k].val]) =
                         Json(200, "true", "Tax calculation retrieved successfully!",
                              k, req'[r].resp.taxCalculation)]_vars

\* A result with fraction digits (tax 402146.02, rate 11.83) saved by one
\* request and retrieved by the next
C8_Witness ==
    \E r, q \in Slots :
        /\ Answered(r, "calculate") /\ req[r].reply.st = "ok"
        /\ req[r].resp.taxCalculation.taxOwed = Milli(402146020)
        /\ req[r].resp.taxCalculation.effectiveTaxRate = Milli(11830)
        /\ Answered(q, "getCalculation")
        /\ req[q].input = req[r].resp.userID
        /\ req[q].resp.status = 200
        /\ req[q].resp.taxCalculation = req[r].resp.taxCalculation

\* A request of a handler that only reads the store
Reads(x) == x.op \in {"getCalculation", "startChat"}

C9_FixedExpiry ==
    \A k \in DOMAIN saved :
        /\ k \in DOMAIN store => store[k].expireAt = saved[k].at + DayInMs
        /\ now < saved[k].at + DayInMs =>
               /\ k \in DOMAIN store
               /\ RedisGet(k) = [st |-> "value", val |-> JsonStringify(saved[k].result)]
        /\ now >= saved[k].at + DayInMs =>
               GetResponse(k, RedisGet(k)) =
                   Json(404, "false", "Tax calculation not found or expired!",
                        UndefinedValue, NoCalc)

C9_ReadsChangeNothing ==
    \A r \in Slots :
        (req'[r] # req[r] /\ (Reads(req[r]) \/ Reads(req'[r]))) => store' = store

\* C9: every stored calculation expires 86,400 s after the time of its write
\* and is held until then; no step of getCalculation or startChat changes
\* the keyspace (value or expiry); once the expiry has elapsed a
\* getCalculation for the identifier is answered 404.
C9_Expiry == []C9_FixedExpiry /\ [][C9_ReadsChangeNothing]_vars

\* A retrieve request for a calculation stored a day earlier, answered 404
C9_Witness ==
    \E r \in Slots :
        /\ Answered(r, "getCalculation")
        /\ req[r].input \in DOMAIN saved
        /\ now >= saved[req[r].input].at + DayInMs
        /\ req[r].reply.st = "nil"
        /\ req[r].resp.status = 404

\* C10: no two calls of generateUniqueID return the same identifier.
C10_AllDistinct ==
    \A i, j \in 1..Len(idLog) : i # j => idLog[i].id # idLog[j].id

\* What the code does ensure: two calls return the same identifier only when
\* Date.now() and randomBytes(6) returned the same to both
C10_DistinctUnlessSameDraw ==
    \A i, j \in 1..Len(idLog) :
        idLog[i].id = idLog[j].id =>
            idLog[i].dateNow = idLog[j].dateNow /\ idLog[i].bytes = idLog[j].bytes

\* The slot r holds a compute request answered after an acknowledged save
SavedBy(r) == Answered(r, "calculate") /\ req[r].reply.st = "ok"

\* C11: a stored calculation is immutable.  While the key a compute request
\* was answered with is live, the store holds under it the result that
\* request saved.
C11_Immutable ==
    \A r \in Slots :
        (SavedBy(r) /\ Holds(req[r].resp.userID)) =>
            store[req[r].resp.userID].val = JsonStringify(req[r].resp.taxCalculation)

\* What the code does ensure: the same, for an identifier issued once
C11_ImmutableUnlessCollision ==
    \A r \in Slots :
        (/\ SavedBy(r)
         /\ Holds(req[r].resp.userID)
         /\ Cardinality({i \in 1..Len(idLog) : idLog[i].id = req[r].resp.userID}) = 1) =>
            store[req[r].resp.userID].val = JsonStringify(req[r].resp.taxCalculation)

\* A field value that is not a number, is negative, is not finite or is above
\* 100,000,000,000
BadField(x) ==
    \/ x.t # "number"
    \/ x.neg
    \/ Less(MulSmall(Naira(100000000), 1000), x.v)

OptionalFields ==
    {"additionalMonthlyIncome", "annualPensionContributions", "annualNHFContributions",
     "annualRentPaid", "lifeInsurancePremiums"}

\* The body b has a field of one of these kinds; an absent optional field is
\* none of them
FailsAsStated(b) ==
    \/ BadField(b.monthlyGrossIncome)
    \/ \E f \in OptionalFields : b[f] # Undefined /\ BadField(b[f])

\* C12: the step of calculate on a body with a field that is not numeric,
\* negative, non-finite or above the bound answers 400 with success = false,
\* carries no result and no userID, issues no store command, and leaves the
\* identifier log and the keyspace as they were.
C12_RejectionOnly ==
    [][\A r \in Slots :
          (req[r].op = "idle" /\ req'[r].op = "calculate"
              /\ FailsAsStated(req'[r].input)) =>
              /\ req'[r].pc = "done"
              /\ req'[r].resp.kind = "json"
              /\ req'[r].resp.status = 400
              /\ req'[r].resp.success = "false"
              /\ req'[r].resp.taxCalculation = NoCalc
              /\ req'[r].resp.userID = UndefinedValue
              /\ req'[r].result = NoCalc
              /\ req'[r].cmd = <<>>
              /\ req'[r].reply = NoReply
              /\ idLog' = idLog
              /\ store' = store
              /\ saved' = saved]_vars

\* A body with a negative rent answered 400 while a saved calculation is held
C12_Witness ==
    \E r \in Slots :
        /\ Answered(r, "calculate")
        /\ req[r].input.annualRentPaid = JsNegative(Naira(1))
        /\ req[r].resp.status = 400
        /\ req[r].result = NoCalc
        /\ saved # EmptyMap

\* C13: calculate rejects a body exactly when some field is not numeric,
\* negative, non-finite or above the bound; a monthlyGrossIncome of 0 with the
\* optional fields absent or valid is accepted.
C13_AcceptsAsStated ==
    locals.st # "none" => (locals.st = "rejected" <=> FailsAsStated(body))

\* What the code does: it rejects those bodies, and every body whose
\* monthlyGrossIncome is 0
C13_AcceptsExceptZero ==
    locals.st # "none" =>
        (locals.st = "rejected" <=>
            (FailsAsStated(body) \/ body.monthlyGrossIncome = JsNumber(<<>>)))

\* A monthlyGrossIncome of 0 with an additional income, rejected
C13_Witness ==
    /\ locals.st = "rejected"
    /\ body.monthlyGrossIncome = JsNumber(<<>>)
    /\ body.additionalMonthlyIncome = JsNumber(Naira(100000))
    /\ ~FailsAsStated(body)
    /\ locals.message = "Monthly gross income is required and must be a valid number!"

\* 100,000,000,000
SanityBound == MulSmall(Naira(100000000), 1000)

BodyFields == {"monthlyGrossIncome"} \cup OptionalFields

\* The field value x is a number above the bound
AboveBound(x) == x.t = "Infinity" \/ (x.t = "number" /\ ~x.neg /\ Less(SanityBound, x.v))

\* The field value x is absent where it may be, or a number from 0 (from
\* above 0, for monthlyGrossIncome) to the bound
WithinBound(b, f) ==
    \/ (f # "monthlyGrossIncome" /\ b[f] = Undefined)
    \/ /\ b[f].t = "number" /\ ~b[f].neg
       /\ Leq(b[f].v, SanityBound)
       /\ (f = "monthlyGrossIncome" => b[f].v # <<>>)

\* C14: a body with a field above 100,000,000,000 is rejected and nothing is
\* computed from it; the message about the limits is given only for such a
\* body; a body whose fields are all valid and at most the bound, some of
\* them equal to it, is accepted and the value enters the arithmetic as it is.
C14_BoundNotClamped ==
    locals.st # "none" =>
        /\ (\E f \in BodyFields : AboveBound(body[f])) =>
               locals.st = "rejected" /\ locals.l = <<>>
        /\ locals.message = "Input values exceed reasonable limits!" =>
               \E f \in BodyFields : AboveBound(body[f])
        /\ (\A f \in BodyFields : WithinBound(body, f)) =>
               /\ locals.st = "computed"
               /\ locals.l.grossIncome =
                      MulSmall(Add(body.monthlyGrossIncome.v,
                                   Default0(body.additionalMonthlyIncome).v), 12)

\* A body with two fields equal to the bound, accepted
C14_Witness ==
    /\ locals.st = "computed"
    /\ body.monthlyGrossIncome = JsNumber(SanityBound)
    /\ body.annualRentPaid = JsNumber(SanityBound)
    /\ locals.l.grossIncome = MulSmall(SanityBound, 12)
    /\ locals.l.rentDeduction = Naira(500000)

\* The identifier is absent, not a string, empty or made of white space
BlankAsStated(userID) ==
    \/ userID \in {UndefinedValue, NullValue, NonStringValue}
    \/ \A i \in 1..Len(userID) : userID[i] \in {" ", "\t", "\n"}

\* C15: the step of getCalculation on an identifier that is absent, not a
\* string or blank answers 400 with success = false and issues no read; the
\* keyspace is as it was.
C15_NoStoreAccess ==
    [][\A r \in Slots :
          (req[r].op = "idle" /\ req'[r].op = "getCalculation"
              /\ BlankAsStated(req'[r].input)) =>
              /\ req'[r].pc = "done"
              /\ req'[r].resp =
                     Json(400, "false", "Valid user ID is required!", UndefinedValue, NoCalc)
              /\ req'[r].reply = NoReply
              /\ req'[r].cmd = <<>>
              /\ store' = store]_vars

\* An identifier of white space answered 400 while a calculation is stored
C15_Witness ==
    \E r \in Slots :
        /\ Answered(r, "getCalculation")
        /\ req[r].input = <<" ", "\t">>
        /\ req[r].resp.status = 400
        /\ req[r].reply = NoReply
        /\ \E k \in DOMAIN saved : Holds(k)

\* The tax of each taxable income drawn
TaxTable == [a \in TaxInputs |-> calculateNigeriaTax2026(a)]

\* C16: the tax returned for a taxable income is at least the tax of every
\* smaller taxable income.
C16_Monotone ==
    taxRes.done =>
        \A a \in TaxInputs : Leq(a, taxArg) => Leq(TaxTable[a], taxRes.v)

\* A taxable income in the third band, the tax of the band boundary 0.2
\* below it being smaller
C16_Witness ==
    /\ taxRes.done
    /\ taxArg = Add(Naira(3000000), Milli(200))
    /\ Less(TaxTable[Naira(3000000)], taxRes.v)
    /\ TaxTable[Naira(3000000)] = Naira(330000)

\* C17 as stated: the tax is 0 up to and including 800,000 and strictly
\* positive for every taxable income above 800,000.
C17_AsStated ==
    taxRes.done =>
        /\ Leq(taxArg, Naira(800000)) => taxRes.v = <<>>
        /\ Less(Naira(800000), taxArg) => taxRes.v # <<>>

\* C17, amended: the tax is 0 up to and including 800,000, and also above it
\* while 15% of the excess is less than 0.005 and rounds to 0.00; it is
\* strictly positive from there on, that is when 3 times the excess is at
\* least 0.1.
C17_ZeroBand ==
    taxRes.done =>
        /\ Leq(taxArg, Naira(800000)) => taxRes.v = <<>>
        /\ Less(Naira(800000), taxArg) =>
               (taxRes.v # <<>> <=>
                   Leq(Milli(100), MulSmall(Sub(taxArg, Naira(800000)), 3)))

\* The taxable income 800,000.033, with tax 0
C17_Witness ==
    /\ taxRes.done
    /\ taxArg = Add(Naira(800000), Milli(33))
    /\ taxRes.v = <<>>
    /\ TaxTable[Add(Naira(800000), Milli(34))] = Milli(10)

\* C18: for every accepted body no field is negative, so each of the four
\* sub-deductions is the smaller of non-negative amounts and is at most the
\* amount paid; totalDeductions is their sum, whether or not it exceeds
\* grossIncome, and is reported unchanged.
C18_SumOfFour ==
    locals.st = "computed" =>
        LET l == locals.l
            d == Destructure(body)
        IN  /\ \A f \in BodyFields : d[f].t = "number" /\ ~d[f].neg
            /\ Leq(l.pensionDeduction, d.annualPensionContributions.v)
            /\ Leq(l.nhfDeduction, d.annualNHFContributions.v)
            /\ Leq(l.insuranceDeduction, d.lifeInsurancePremiums.v)
            /\ Leq(l.rentDeduction, d.annualRentPaid.v)
            /\ l.totalDeductions =
                   Add(l.rentDeduction,
                       Add(l.insuranceDeduction, Add(l.nhfDeduction, l.pensionDeduction)))
            /\ l.result.totalDeductions = l.totalDeductions

\* A gross income of 12 with deductions of 500,000: the sum is reported as it
\* is and the taxable income is 0
C18_Witness ==
    /\ locals.st = "computed"
    /\ locals.l.grossIncome = Naira(12)
    /\ locals.l.rentDeduction = Naira(500000)
    /\ Less(locals.l.grossIncome, locals.l.result.totalDeductions)
    /\ locals.l.result.totalDeductions =
           Add(Naira(500000), Add(locals.l.pensionDeduction,
                                  Add(locals.l.nhfDeduction, locals.l.insuranceDeduction)))
    /\ locals.l.result.taxableIncome = <<>>

AwaitsStore(x) ==
    x.op \in {"calculate", "getCalculation"} /\ x.pc \in {"awaitSetEx", "awaitGet"}

\* C20: a compute or retrieve request calls the store only in the step that
\* starts it, and its next step answers it: no request calls the store
\* twice.  A failed save, whether the call could not be made or was rejected,
\* leaves the keyspace as it was and is answered with the degraded response.
C20_NoRetry ==
    [][\A r \in Slots :
          /\ (AwaitsStore(req'[r]) /\ req'[r] # req[r]) => req[r].op = "idle"
          /\ (AwaitsStore(req[r]) /\ req'[r] # req[r]) => req'[r].pc = "done"
          /\ (req[r].pc = "awaitSetEx" /\ req'[r].reply.st = "rejected") =>
                 /\ req'[r].resp = DegradedResponse(req[r].result)
                 /\ store' = store
          /\ (req[r].op = "idle" /\ req'[r].op = "calculate"
                  /\ req'[r].reply.st \in {"noClient", "threw"}) =>
                 /\ req'[r].pc = "done"
                 /\ req'[r].cmd = <<>>
                 /\ req'[r].resp = DegradedResponse(req'[r].result)
                 /\ store' = store]_vars

\* A compute request answered after its one save was rejected: nothing is
\* held under the identifier generated for it
C20_Witness ==
    \E r \in Slots :
        /\ Answered(r, "calculate")
        /\ req[r].reply.st = "rejected"
        /\ req[r].resp.userID = NullValue
        /\ req[r].userID \notin DOMAIN store
        /\ req[r].userID \notin DOMAIN saved

StoreFailed(x) ==
    \/ x.reply.st \in {"noClient", "threw", "rejected"}
    \/ (x.reply.st = "value" /\ ~FalsyReply(x.reply) /\ ~JsonParse(x.reply.val).ok)

\* C22: every finished calculate or getCalculation has made exactly one call
\* of res.json or next, never none and never both; a response carries 200,
\* 400 or 404; a failure of the store shows in it (the note and the null
\* userID of calculate, next(error) of getCalculation); the handler makes no
\* call before it finishes, and none after
C22_ExactlyOneOutcome ==
    /\ [](\A r \in Slots :
            LET x == req[r]
            IN  x.op \in {"calculate", "getCalculation"} =>
                  IF x.pc = "done"
                  THEN /\ x.resp.sent + x.resp.nexts = 1
                       /\ x.resp.sent = 1 =>
                             /\ x.resp.kind = "json"
                             /\ x.resp.status \in {200, 400, 404}
                             /\ x.resp.success = (IF x.resp.status = 200
                                                  THEN "true" ELSE "false")
                       /\ x.resp.nexts = 1 => x.resp.kind = "next"
                       /\ (x.op = "calculate" /\ StoreFailed(x)) =>
                             /\ x.resp.sent = 1
                             /\ x.resp.userID = NullValue
                             /\ x.resp.message # SavedResponse(x.userID, x.result).message
                       /\ (x.op = "getCalculation" /\ StoreFailed(x)) =>
                             x.resp.nexts = 1
                       /\ (x.op = "getCalculation" /\ x.reply.st = "nil") =>
                             x.resp.status = 404
                  ELSE x.resp = NoResp)
    /\ [][\A r \in Slots :
            (req[r].pc = "done" /\ req'[r].pc = "done") => req'[r].resp = req[r].resp]_vars

\* A retrieve that met malformed stored data and ended in next(error), beside
\* a compute whose save was rejected and that answered all the same
C22_Witness ==
    \E r, q \in Slots :
        /\ Answered(r, "getCalculation")
        /\ req[r].reply = [st |-> "value", val |-> InvalidJson]
        /\ req[r].resp.nexts = 1 /\ req[r].resp.sent = 0
        /\ Answered(q, "calculate")
        /\ req[q].reply.st = "rejected"
        /\ req[q].resp.sent = 1 /\ req[q].resp.nexts = 0

\* C23 as stated: when setEx throws while calculate handles an accepted
\* body, calculate calls next with the error
C23_ForwardsThrow ==
    \A r \in Slots :
        (Answered(r, "calculate") /\ req[r].reply.st = "threw") =>
            /\ req[r].resp.kind = "next"
            /\ req[r].resp.nexts = 1

\* What the code does: the throw happens inside the inner try (lines
\* 196-198), whose catch answers 200 with the result and a null userID
C23_ThrowDegrades ==
    \A r \in Slots :
        (Answered(r, "calculate") /\ req[r].reply.st = "threw") =>
            /\ req[r].resp = DegradedResponse(ServerResults[req[r].input])
            /\ req[r].resp.nexts = 0

\* An accepted body, a client that is connected, and a setEx that threw
C23_Witness ==
    \E r \in Slots :
        /\ Answered(r, "calculate")
        /\ Validate(req[r].input) = "ok"
        /\ redisClient = "ready"
        /\ req[r].reply.st = "threw"
        /\ req[r].resp.status = 200

(***************************************************************************)
(* Claims about the chat handler.                                          *)
(***************************************************************************)
\* The prompt is missing or empty
PromptAbsent(p) == p.t \in {"undefined", "null"} \/ (p.t = "string" /\ p.length = 0)

\* The prompt has more than 200 characters
PromptOver200(p) == p.t = "string" /\ p.length > 200

\* C24: the step of startChat on a prompt that is missing, empty or longer
\* than 200 characters, or on a userID that is missing, not a string or
\* blank, answers 400 and issues no read and no call of the model; the
\* prompt is judged first, so its message is the one given when both are
\* bad; a prompt of exactly 200 characters with a good userID is not refused
C24_RejectsBeforeStore ==
    [][\A r \in Slots :
          (req[r].op = "idle" /\ req'[r].op = "startChat") =>
              LET p == req'[r].prompt
                  u == req'[r].input
                  x == req'[r]
              IN  /\ (PromptAbsent(p) \/ PromptOver200(p) \/ BlankAsStated(u)) =>
                        /\ x.pc = "done"
                        /\ x.resp.kind = "json" /\ x.resp.status = 400
                        /\ x.resp.sent = 1 /\ x.resp.nexts = 0
                        /\ x.reply = NoReply
                        /\ x.result = NoCalc
                        /\ store' = store
                  /\ PromptAbsent(p) => x.resp.message = "No prompt provided"
                  /\ (~PromptAbsent(p) /\ PromptOver200(p)) =>
                        x.resp.message = "Prompt length exceeded."
                  /\ (~PromptAbsent(p) /\ ~PromptOver200(p) /\ BlankAsStated(u)) =>
                        x.resp.message = "Valid user ID is required!"
                  /\ (p.t = "string" /\ p.length \in 1..200 /\ ~BlankAsStated(u)) =>
                        /\ x.resp.status # 400
                        /\ redisClient = "ready" =>
                              (x.pc = "awaitGet" /\ x.reply.st = "pending")]_vars

\* A request with a prompt too long and a blank userID, refused with the
\* message about the prompt while a calculation is stored and live
C24_Witness ==
    \E r \in Slots, k \in DOMAIN saved :
        /\ Answered(r, "startChat")
        /\ req[r].prompt = [t |-> "string", length |-> 201]
        /\ req[r].input = <<" ">>
        /\ req[r].resp.status = 400
        /\ req[r].resp.message = "Prompt length exceeded."
        /\ redisClient = "ready"
        /\ Live(k)

\* A chat request that passed the tests of its prompt and userID and whose
\* read of the store is over
PastRead(r) ==
    /\ req[r].op = "startChat"
    /\ ~MissingPrompt(req[r].prompt) /\ ~PromptTooLong(req[r].prompt)
    /\ ~InvalidUserID(req[r].input)
    /\ req[r].reply.st \notin {"none", "pending"}

\* The request of slot r was aborted at the read: the model was not called
AbortedAtRead(r) ==
    /\ req[r].pc = "done"
    /\ req[r].resp = NextError("Error getting tax context")
    /\ req[r].result = NoCalc

\* The request of slot r went on to the model without tax context, and its
\* answer, once there, is the reply of the model unless the model failed
WentOnWithout(r) ==
    /\ req[r].result = NoCalc
    /\ req[r].pc \in {"awaitAI", "done"}
    /\ req[r].pc = "done" =>
          \/ (req[r].resp.status = 200 /\ req[r].resp.message = "AIResponse")
          \/ req[r].resp = NextError("Error during chat")

\* C25 as stated: a missing or expired calculation lets the chat go on
\* without context; a failed read, or stored data that cannot be parsed,
\* aborts it with next(error) before the model is called
C25_AsStated ==
    \A r \in Slots :
        PastRead(r) =>
            LET reply == req[r].reply
            IN  /\ reply.st = "nil" => WentOnWithout(r)
                /\ (reply.st \in {"noClient", "rejected"}
                        \/ (reply.st = "value" /\ ~JsonParse(reply.val).ok)) =>
                       AbortedAtRead(r)

\* What the code does: the empty string under the key counts as no
\* calculation (if (data), line 80); other text that cannot be parsed aborts
C25_ExceptEmptyString ==
    \A r \in Slots :
        PastRead(r) =>
            LET reply == req[r].reply
            IN  /\ FalsyReply(reply) => WentOnWithout(r)
                /\ (reply.st \in {"noClient", "rejected"}
                        \/ (reply.st = "value" /\ reply.val # EmptyString
                                /\ ~JsonParse(reply.val).ok)) =>
                       AbortedAtRead(r)
                /\ (reply.st = "value" /\ JsonParse(reply.val).ok) =>
                       /\ req[r].result = JsonParse(reply.val).v
                       /\ req[r].pc \in {"awaitAI", "done"}

\* A chat request whose key holds the empty string, answered by the model
C25_Witness ==
    \E r \in Slots :
        /\ Answered(r, "startChat")
        /\ req[r].input = EmptyKey
        /\ req[r].reply = [st |-> "value", val |-> EmptyString]
        /\ ~JsonParse(req[r].reply.val).ok
        /\ req[r].resp.status = 200
        /\ req[r].resp.message = "AIResponse"

(***************************************************************************)
(* Claims about the error middleware, the shutdown and the reconnection.   *)
(***************************************************************************)
\* The status the error carries, or 500
CarriedStatus(e) ==
    IF e.statusCode.t = "number" /\ e.statusCode.v # 0 THEN e.statusCode.v ELSE 500

IsJwtError(e) == e.name \in {"JsonWebTokenError", "TokenExpiredError"}
IsValidationError(e) == e.name = "ValidationError" /\ e.errors.t = "object"

\* C26 as stated: success is false, and the status is 404 for a CastError,
\* 400 for code 11000, 400 for a ValidationError with errors, 401 for the
\* two token errors, and otherwise the truthy statusCode or 500
C26_AsStated ==
    errorCall.st = "answered" =>
        LET e == errorCall.err
            res == errorCall.res
        IN  /\ res.success = FALSE
            /\ e.name = "CastError" => res.status = 404
            /\ e.code = Num(11000) => res.status = 400
            /\ IsValidationError(e) => res.status = 400
            /\ IsJwtError(e) => res.status = 401
            /\ (e.name # "CastError" /\ e.code # Num(11000) /\ ~IsValidationError(e)
                    /\ ~IsJwtError(e)) => res.status = CarriedStatus(e)

\* C26, amended: where two kinds apply the later test wins: code 11000
\* gives 400 to a CastError too, and a token error with code 11000 gives 401
C26_LaterKindWins ==
    errorCall.st = "answered" =>
        LET e == errorCall.err
            res == errorCall.res
        IN  /\ res.success = FALSE
            /\ res.status =
                  IF IsJwtError(e) THEN 401
                  ELSE IF IsValidationError(e) \/ e.code = Num(11000) THEN 400
                  ELSE IF e.name = "CastError" THEN 404
                  ELSE CarriedStatus(e)
            /\ (e.statusCode = Num(0) /\ e.name = "Error" /\ e.code # Num(11000)) =>
                  res.status = 500

\* A CastError that carries statusCode 400, answered 404 with the message
\* of its kind
C26_Witness ==
    /\ errorCall.st = "answered"
    /\ errorCall.err.name = "CastError"
    /\ errorCall.err.statusCode = Num(400)
    /\ errorCall.err.code = NoNumber
    /\ errorCall.res.status = 404
    /\ errorCall.res.message = <<"Resource not found">>
    /\ errorCall.res.success = FALSE

\* C29: at most one shutdown is started, by the first signal; every
\* registered handler has been called exactly once from then on; the
\* process has exited only if every handler has settled, fulfilled or not;
\* a signal after the first changes nothing
C29_ShutdownOnce ==
    /\ [](proc.st # "none" =>
            /\ proc.shutdowns = (IF proc.signals = <<>> THEN 0 ELSE 1)
            /\ proc.isShuttingDown <=> proc.signals # <<>>
            /\ \A i \in DOMAIN proc.handlers :
                  /\ proc.handlers[i].calls = proc.shutdowns
                  /\ proc.handlers[i].st = "idle" <=> proc.signals = <<>>
            /\ proc.st = "exited" =>
                  /\ proc.signals # <<>>
                  /\ proc.exitCode = 0
                  /\ \A i \in DOMAIN proc.handlers :
                        /\ proc.handlers[i].st \in {"fulfilled", "rejected"}
                        /\ proc.handlers[i].calls = 1)
    /\ [][(proc.st # "none" /\ proc.signals # <<>>
              /\ Len(proc'.signals) > Len(proc.signals)) =>
             proc' = [proc EXCEPT !.signals = proc'.signals]]_vars

\* SIGINT, then SIGTERM while two handlers were pending, one of which
\* failed; the process has exited
C29_Witness ==
    /\ proc.st = "exited"
    /\ Len(proc.signals) >= 2
    /\ proc.signals[1] = "SIGINT" /\ proc.signals[2] = "SIGTERM"
    /\ Len(proc.handlers) = 2
    /\ proc.handlers[1].st = "rejected"
    /\ proc.handlers[2].st = "fulfilled"
    /\ \A i \in 1..2 : proc.handlers[i].calls = 1

\* C30 as stated: the delays of successive attempts double, from 100 ms,
\* up to 3000 ms, and the client gives up once more than 10 retries were made
C30_Doubling ==
    sock.st # "none" =>
        /\ \A i \in 1..Len(sock.delays) :
              /\ (sock.delays[i] > 0 /\ (i = 1 \/ sock.delays[i - 1] = 0)) =>
                    sock.delays[i] = 100
              /\ (i > 1 /\ sock.delays[i - 1] > 0) =>
                    sock.delays[i] = MathMinInt(2 * sock.delays[i - 1], 3000)
        /\ sock.st = "closed" <=> sock.retries > 10

\* What the code does: the delay is 100 ms times the number of retries, so
\* it grows by 100 ms from one attempt to the next and is at most 1000 ms;
\* the client gives up once more than 10 retries were made
C30_Linear ==
    sock.st # "none" =>
        /\ \A i \in 1..Len(sock.delays) :
              /\ sock.delays[i] = 100 * (sock.first + i - 1)
              /\ sock.delays[i] <= 1000
        /\ sock.st = "closed" <=> sock.retries > 10
        /\ sock.retries <= 11

\* The third delay after the connection was lost, with retries counted
\* from 1: 300 ms
C30_Witness ==
    /\ sock.st = "waiting"
    /\ sock.first = 1
    /\ sock.retries = 3
    /\ sock.delays = <<100, 200, 300>>

\* C27: the step in which calculate answers with a userID that is not null
\* is the one in which the SETEX of that request is acknowledged: that step
\* leaves the returned result, serialized, under the returned userID, with
\* the full lifetime; while the save is pending nothing has been answered,
\* and a request whose save failed or never started answers with null
C27_AckBeforeAnswer ==
    /\ [][\A r \in Slots :
            (req'[r].op = "calculate" /\ req'[r].pc = "done" /\ req[r].pc # "done"
                /\ req'[r].resp.kind = "json" /\ req'[r].resp.status = 200
                /\ req'[r].resp.userID # NullValue) =>
                LET k == req'[r].resp.userID
                IN  /\ req[r].pc = "awaitSetEx"
                    /\ req[r].resp = NoResp
                    /\ req'[r].reply.st = "ok"
                    /\ k = req[r].cmd.key
                    /\ k \in DOMAIN store'
                    /\ store'[k] = [val |-> JsonStringify(req'[r].resp.taxCalculation),
                                    expireAt |-> now + TtlSeconds * 1000]
                    /\ k \in DOMAIN saved'
                    /\ saved'[k] = [at |-> now, result |-> req'[r].resp.taxCalculation]]_vars
    /\ [](\A r \in Slots :
            /\ req[r].pc = "awaitSetEx" => req[r].resp = NoResp
            /\ (Answered(r, "calculate") /\ req[r].resp.status = 200
                    /\ req[r].reply.st # "ok") => req[r].resp.userID = NullValue)

\* A compute request answered with its userID, the result stored under it,
\* beside one whose save was rejected and that was answered with null
C27_Witness ==
    \E r, q \in Slots :
        /\ Answered(r, "calculate")
        /\ req[r].resp.userID = req[r].userID
        /\ req[r].reply.st = "ok"
        /\ Holds(req[r].userID)
        /\ store[req[r].userID].val = JsonStringify(req[r].resp.taxCalculation)
        /\ Answered(q, "calculate")
        /\ req[q].reply.st = "rejected"
        /\ req[q].resp.userID = NullValue
        /\ req[q].userID # req[r].userID

\* C28: in every result calculate produces, taxOwed is at most
\* taxableIncome, which is at most grossIncome; taxOwed is at most
\* grossIncome before rounding too, so that afterTaxIncome, their
\* difference, is not negative; and effectiveTaxRate is at most 25.  (No
\* amount of the result can be below 0: each is min, max with 0, or a
\* product or sum of amounts that are not.)
C28_ResultBounds ==
    locals.st = "computed" =>
        LET l == locals.l
            res == locals.l.result
        IN  /\ Leq(res.taxOwed, res.taxableIncome)
            /\ Leq(res.taxableIncome, res.grossIncome)
            /\ Leq(l.taxOwed, l.taxableIncome)
            /\ Leq(l.totalDeductions, l.grossIncome) =>
                  Add(l.taxableIncome, l.totalDeductions) = l.grossIncome
            /\ Less(l.grossIncome, l.totalDeductions) => l.taxableIncome = <<>>
            /\ Leq(l.taxOwed, l.grossIncome)
            /\ Add(res.afterTaxIncome, res.taxOwed) = res.grossIncome
            /\ Leq(res.effectiveTaxRate, Naira(25))

\* The largest income a body can carry: the rate is 25 after rounding
C28_Witness ==
    /\ locals.st = "computed"
    /\ body.monthlyGrossIncome = JsNumber(MAX_REASONABLE_VALUE)
    /\ body.additionalMonthlyIncome = JsNumber(MAX_REASONABLE_VALUE)
    /\ locals.l.result.effectiveTaxRate = Naira(25)
    /\ Less(locals.l.result.taxOwed, locals.l.result.taxableIncome)
    /\ locals.l.result.afterTaxIncome # <<>>

====
